---------------------------- MODULE Spec2Model ----------------------------
(***************************************************************************)
(* Model of the project-management backend: the role gate, the invoice,    *)
(* project, user, session and time-entry handlers and the tables they read *)
(* and write.                                                              *)
(*                                                                         *)
(* Conventions                                                             *)
(*  - a table is a function from the ids the model uses to a row record,   *)
(*    or to the No... record when no row with that id is stored;           *)
(*    time_entries is a sequence in created_at order, because clock-out    *)
(*    selects by that order;                                               *)
(*  - a handler runs in steps, one per awaited query: a step is the query  *)
(*    as the store executes it together with the code that runs on its     *)
(*    answer up to the next await.  The first step of an authenticated     *)
(*    route is the users query of authenticateToken, followed by the role  *)
(*    gate and the validators, which read req only.  inflight[r] holds,    *)
(*    for the request in slot r, the step it waits at (pc), the request    *)
(*    (req), the row authenticateToken stored as req.user (user) and the   *)
(*    handler's local variables (loc).  Steps of requests in different     *)
(*    slots interleave; a specification that uses one slot runs the        *)
(*    requests one at a time;                                              *)
(*  - an awaited bcrypt.compare is a step of its own: it compares with     *)
(*    the hash the query before it read, and the answer that follows it    *)
(*    is sent after the steps of other requests that ran meanwhile.  An    *)
(*    awaited bcrypt.hash reads and answers nothing and is followed by     *)
(*    the next query, so it ends the step before that query;               *)
(*  - dates are day numbers of the Gregorian calendar, counted from 1      *)
(*    January of BaseYear (day 0); CURRENT_DATE is the variable today;     *)
(*    westOfUTC tells whether the server's local time is behind UTC, which *)
(*    is what the local-time getters of a Date depend on;                  *)
(*  - an amount is a number of cents, which is what the columns amount and *)
(*    paid_amount keep; the payment handler computes on the doubles that   *)
(*    parseFloat makes of them, and the model rounds as they do;           *)
(*  - a new row gets an id that no row has had before: issued counts, per  *)
(*    table, the ids generated so far;                                     *)
(*  - last holds the response the latest step sent and the request it      *)
(*    answers: the route, the id addressed, the status code, the error and *)
(*    the payload fields the properties read (rows, and total for the      *)
(*    count that goes with a page of rows); it is NoLast after a step that *)
(*    sends none;                                                          *)
(*  - a token is the user id its payload carries (the only part of it      *)
(*    authenticateToken reads); tokens holds those login has issued since  *)
(*    the initial state.  The session specification lets a caller present  *)
(*    only a token of that set; the other specifications start with the    *)
(*    callers' sessions open;                                              *)
(*  - request bodies are taken as well-formed (ids, dates, enumerations);  *)
(*    of the express-validator chains the amount range, the roles array    *)
(*    and the id of the complete route are modelled;                       *)
(*  - the store answers every query, so a handler's catch branch (status   *)
(*    500) is reached only by an exception of the handler's own code: the  *)
(*    read of the first row of a result that has none.                     *)
(***************************************************************************)
EXTENDS Integers, Sequences, FiniteSets, TLC

VARIABLES
  users,        \* table users: id -> row
  projects,     \* table projects: id -> row
  invoices,     \* table invoices: id -> row
  timeEntries,  \* table time_entries, in created_at order
  today,        \* CURRENT_DATE
  last,         \* the response sent by the latest step
  inflight,     \* the requests that wait for the answer of a query
  tokens,       \* the user ids login has signed a token for
  westOfUTC,    \* the server's local time is behind UTC
  issued        \* per table, the number of ids generated so far

vars == <<users, projects, invoices, timeEntries, today, last, inflight, tokens,
          westOfUTC, issued>>

(***************************************************************************)
(* Bounds of the model.                                                    *)
(***************************************************************************)
MaxAmount == 3
MaxDay == 1
MaxInvoices == 2
MaxProjects == 2
MaxEntries == 2

(***************************************************************************)
(* Value spaces.                                                           *)
(***************************************************************************)
NoNum == 0 - 1
NoId == "none"
NoStr == ""

UserIds == {"u1", "u2", "u3", "u4", "u5", "u6", "u7"}
InvoiceIds == 1..MaxInvoices
ProjectIds == 1..MaxProjects
EntryIds == 1..MaxEntries
Days == 0..MaxDay
\* amounts in cents: 0.00, 0.10, 0.20, ...
Amounts == {10 * k : k \in 0..MaxAmount}

InvoiceStatuses == {"pending", "paid", "overdue", "cancelled"}
ProjectStatuses == {"pending", "ongoing", "completed"}

NoUser == [absent |-> TRUE]
NoProject == [absent |-> TRUE]
NoInvoice == [absent |-> TRUE]

\* no request: the req of an idle slot and of NoLast
NoReq == [route |-> "none"]

NoLast ==
  [op |-> "none", req |-> NoReq, id |-> 0, code |-> 0, err |-> NoStr,
   mark |-> FALSE, remaining |-> NoNum, rows |-> {}, token |-> NoId,
   total |-> NoNum]

\* the response to req: status code and error
Resp(req, id, code, err) ==
  [NoLast EXCEPT !.op = req.route, !.req = req, !.id = id, !.code = code, !.err = err]

(***************************************************************************)
(* Requests in flight.                                                     *)
(***************************************************************************)
Reqs == {"r1", "r2"}
Idle == [req |-> NoReq, pc |-> "idle", user |-> NoUser, loc |-> <<>>]

\* slot r is free: a request can arrive in it
Free(r) == inflight[r].pc = "idle"

\* the request req of slot r waits for the answer of the query pc
At(r, pc, req) ==
  /\ inflight[r].pc = pc
  /\ inflight[r].req.route = req.route
  /\ inflight[r].req = req

\* await pool.query(...): request req goes on to wait for the query pc
Await(r, pc, req, user, loc) ==
  /\ inflight' = [inflight EXCEPT ![r] = [req |-> req, pc |-> pc, user |-> user, loc |-> loc]]
  /\ last' = NoLast

\* res.json(...): the request of slot r is answered
Answer(r, resp) ==
  /\ inflight' = [inflight EXCEPT ![r] = Idle]
  /\ last' = resp

(***************************************************************************)
(* middleware/auth                                                         *)
(***************************************************************************)
\* array.includes(x), and x = ANY(array) in the SQL of the handlers
includes(array, x) == \E i \in 1..Len(array) : array[i] = x

\* the roles an array names, each once
RoleSet(roles) == {roles[i] : i \in 1..Len(roles)}

hasRole(userRoles, requiredRole) == includes(userRoles, requiredRole)

\* the project test answering yes to every role
canAccessProjectsAnyRole(userRoles) == userRoles # <<>>

canAccessProjects(userRoles) ==
  hasRole(userRoles, "admin") \/ hasRole(userRoles, "madmin") \/ hasRole(userRoles, "user")

\* the billing test written like the project test
canAccessBillingLikeProjects(userRoles) ==
  hasRole(userRoles, "admin") \/ hasRole(userRoles, "madmin") \/ hasRole(userRoles, "user")

canAccessBilling(userRoles) ==
  hasRole(userRoles, "admin") \/ hasRole(userRoles, "madmin")

canDeleteProjects(userRoles) == hasRole(userRoles, "admin")

\* requiredRoles.some(role => userRoles.includes(role))
requireRole(requiredRoles, userRoles) ==
  \E i \in 1..Len(requiredRoles) : includes(userRoles, requiredRoles[i])

\* the admin test that also lets madmin through
requireAdminLax(userRoles) == requireRole(<<"admin", "madmin">>, userRoles)

requireAdmin(userRoles) == requireRole(<<"admin">>, userRoles)

\* authenticateToken without the approval test
authenticateTokenAnyApproval(c) == IF users[c] = NoUser THEN 401 ELSE 0

\* authenticateToken on the answer of its users query: 0 when the request
\* passes, else the status it answers.
authenticateToken(c) ==
  IF users[c] = NoUser THEN 401
  ELSE IF ~users[c].approved THEN 403
  ELSE 0

\* the error authenticateToken answers with
AuthErr(code) == IF code = 401 THEN "user_not_found" ELSE "suspended"

\* SELECT id, email, username, name, roles, approved FROM users WHERE id = $1:
\* the row a user query returns (no password_hash), kept as req.user
UserRow(u) ==
  [id |-> u, roles |-> users[u].roles, approved |-> users[u].approved,
   email |-> users[u].email, username |-> users[u].username, name |-> users[u].name]

isPrivileged(userRoles) == includes(userRoles, "admin") \/ includes(userRoles, "madmin")

(***************************************************************************)
(* The clock: CURRENT_DATE advances between queries.                       *)
(***************************************************************************)
Tick ==
  /\ today < MaxDay
  /\ today' = today + 1
  /\ last' = NoLast
  /\ UNCHANGED <<users, projects, invoices, timeEntries, inflight, tokens, westOfUTC, issued>>

(***************************************************************************)
(* routes/invoices                                                         *)
(***************************************************************************)
PadWidth == 4

RECURSIVE Pow10(_)
Pow10(n) == IF n = 0 THEN 1 ELSE 10 * Pow10(n - 1)

RECURSIVE Digits(_)
\* String(n).length
Digits(n) == IF n < 10 THEN 1 ELSE 1 + Digits(n \div 10)

\* the length of String(n).padStart(targetLength, '0'): padStart never cuts
padStart(n, targetLength) == IF Digits(n) < targetLength THEN targetLength ELSE Digits(n)

BaseYear == 2024

\* the Gregorian leap years
IsLeapYear(y) == y % 4 = 0 /\ (y % 100 # 0 \/ y % 400 = 0)

DaysInYear(y) == IF IsLeapYear(y) THEN 366 ELSE 365

\* the year of the day that lies d days after 1 January of the year y
RECURSIVE YearFrom(_, _)
YearFrom(y, d) ==
  IF d < 0 THEN YearFrom(y - 1, d + DaysInYear(y - 1))
  ELSE IF d >= DaysInYear(y) THEN YearFrom(y + 1, d - DaysInYear(y))
  ELSE y

\* the days between 1 January of its year and the day that lies d days
\* after 1 January of the year y
RECURSIVE DayOfYearFrom(_, _)
DayOfYearFrom(y, d) ==
  IF d < 0 THEN DayOfYearFrom(y - 1, d + DaysInYear(y - 1))
  ELSE IF d >= DaysInYear(y) THEN DayOfYearFrom(y + 1, d - DaysInYear(y))
  ELSE d

\* EXTRACT(YEAR FROM date): the calendar year of day d
YearOf(d) == YearFrom(BaseYear, d)

\* new Date(date).getFullYear(): a date-only string is parsed as midnight
\* UTC and the getter answers in local time, which is the evening before
\* when the server is west of UTC
getFullYear(d) == YearOf(IF westOfUTC THEN d - 1 ELSE d)

\* body('amount').isFloat({ min: 0.01 }), the amount in cents
ValidAmount(a) == a >= 1

StoredInvoiceIds == {i \in InvoiceIds : invoices[i] # NoInvoice}

\* the id of the next row inserted (DEFAULT gen_random_uuid()): an id no
\* row, stored or deleted, has had
FreshInvoiceId == issued.invoices + 1

\* SELECT COUNT(*) FROM invoices WHERE EXTRACT(YEAR FROM date) = year
CountInYear(year) ==
  Cardinality({i \in StoredInvoiceIds : YearOf(invoices[i].date) = year})

\* `${year}${String(invoiceCount).padStart(4, '0')}` read as a number
InvoiceNumber(year, invoiceCount) ==
  year * Pow10(padStart(invoiceCount, PadWidth)) + invoiceCount

\* The gate in front of every invoice route: 0 when passed.
BillingGate(c) ==
  IF authenticateToken(c) # 0 THEN authenticateToken(c)
  ELSE IF ~canAccessBilling(users[c].roles) THEN 403
  ELSE 0

BillingGateErr(c) ==
  IF authenticateToken(c) # 0 THEN AuthErr(authenticateToken(c)) ELSE "no_billing_role"

\* the WHERE clause of the list and count queries (status NoStr: no filter)
ListWhere(status) == {j \in StoredInvoiceIds : status = NoStr \/ invoices[j].status = status}

\* The rows of the list query.
ListRows(status) ==
  {[id |-> i, status |-> invoices[i].status, due_date |-> invoices[i].due_date] :
     i \in ListWhere(status)}

IsOverdueCandidate(inv) == inv.status = "pending" /\ inv.due_date < today

\* UPDATE invoices SET status = 'overdue' WHERE status = 'pending' AND due_date < CURRENT_DATE
FlagOverdue(tbl) ==
  [i \in InvoiceIds |->
     IF tbl[i] # NoInvoice /\ IsOverdueCandidate(tbl[i])
     THEN [tbl[i] EXCEPT !.status = "overdue"]
     ELSE tbl[i]]

\* GET /api/invoices: the users query, the list query, the count query and
\* the overdue update, then the answer with the rows of the list query
InvList(r, c, status) ==
  LET req == [route |-> "inv_list", status |-> status, caller |-> c] IN
  /\ UNCHANGED <<users, projects, timeEntries, today, tokens, westOfUTC, issued>>
  /\ \/ /\ Free(r)
        /\ UNCHANGED invoices
        /\ IF BillingGate(c) # 0
           THEN Answer(r, Resp(req, 0, BillingGate(c), BillingGateErr(c)))
           ELSE Await(r, "list", req, UserRow(c), <<>>)
     \/ /\ At(r, "list", req)
        /\ UNCHANGED invoices
        /\ Await(r, "count", req, inflight[r].user, [rows |-> ListRows(status)])
     \/ /\ At(r, "count", req)
        /\ UNCHANGED invoices
        /\ Await(r, "flag", req, inflight[r].user,
                 [rows |-> inflight[r].loc.rows, total |-> Cardinality(ListWhere(status))])
     \/ /\ At(r, "flag", req)
        /\ invoices' = FlagOverdue(invoices)
        /\ Answer(r, [Resp(req, 0, 200, NoStr) EXCEPT
                        !.rows = inflight[r].loc.rows, !.total = inflight[r].loc.total])

\* GET /api/invoices/:id
InvGet(r, c, id) ==
  LET req == [route |-> "inv_get", id |-> id, caller |-> c] IN
  /\ UNCHANGED <<users, projects, invoices, timeEntries, today, tokens, westOfUTC, issued>>
  /\ \/ /\ Free(r)
        /\ IF BillingGate(c) # 0
           THEN Answer(r, Resp(req, id, BillingGate(c), BillingGateErr(c)))
           ELSE Await(r, "select", req, UserRow(c), <<>>)
     \/ /\ At(r, "select", req)
        /\ IF invoices[id] = NoInvoice
           THEN Answer(r, Resp(req, id, 404, "not_found"))
           ELSE Answer(r, [Resp(req, id, 200, NoStr) EXCEPT
                             !.rows = {[id |-> id, status |-> invoices[id].status,
                                        due_date |-> invoices[id].due_date]}])

\* countResult.rows[0].count, as the count query answered it
HeldCount(r) == inflight[r].loc.count

\* POST /api/invoices after the client and project tests: the date test,
\* then on to the count query with the year of the invoice date
InvCreateDates(r, req) ==
  IF req.due_date < req.date
  THEN Answer(r, Resp(req, 0, 400, "due_before_date"))
  ELSE Await(r, "count", req, inflight[r].user, [year |-> getFullYear(req.date)])

\* POST /api/invoices: the users query, the client query, the project query
\* when project_id is sent (0: not sent), the count query and the insert
InvCreate(r, c, client_id, project_id, amount, date, due_date) ==
  LET req == [route |-> "inv_create", date |-> date, due_date |-> due_date,
              caller |-> c, client_id |-> client_id, project_id |-> project_id,
              amount |-> amount] IN
  /\ UNCHANGED <<users, projects, timeEntries, today, tokens, westOfUTC>>
  /\ \/ /\ Free(r)
        /\ UNCHANGED <<invoices, issued>>
        /\ IF BillingGate(c) # 0
           THEN Answer(r, Resp(req, 0, BillingGate(c), BillingGateErr(c)))
           ELSE IF ~ValidAmount(amount)
           THEN Answer(r, Resp(req, 0, 400, "validation"))
           ELSE Await(r, "client", req, UserRow(c), <<>>)
     \/ /\ At(r, "client", req)
        /\ UNCHANGED <<invoices, issued>>
        /\ IF users[client_id] = NoUser
           THEN Answer(r, Resp(req, 0, 400, "client_not_found"))
           ELSE IF ~users[client_id].approved
           THEN Answer(r, Resp(req, 0, 400, "client_unapproved"))
           ELSE IF project_id # 0
           THEN Await(r, "project", req, inflight[r].user, <<>>)
           ELSE InvCreateDates(r, req)
     \/ /\ At(r, "project", req)
        /\ UNCHANGED <<invoices, issued>>
        /\ IF projects[project_id] = NoProject
           THEN Answer(r, Resp(req, 0, 400, "project_not_found"))
           ELSE InvCreateDates(r, req)
     \/ /\ At(r, "count", req)
        /\ UNCHANGED <<invoices, issued>>
        /\ Await(r, "insert", req, inflight[r].user,
                 [year |-> inflight[r].loc.year, count |-> CountInYear(inflight[r].loc.year)])
     \/ /\ At(r, "insert", req)
        /\ FreshInvoiceId \in InvoiceIds
        /\ issued' = [issued EXCEPT !.invoices = FreshInvoiceId]
        /\ invoices' = [invoices EXCEPT ![FreshInvoiceId] =
             [date |-> date,
              status |-> "pending", due_date |-> due_date,
              client_id |-> client_id, project_id |-> project_id, amount |-> amount,
              number |-> InvoiceNumber(inflight[r].loc.year, HeldCount(r) + 1), paid_amount |-> 0]]
        /\ Answer(r, Resp(req, FreshInvoiceId, 201, NoStr))

(***************************************************************************)
(* PUT /api/invoices/:id.  An update request is a record whose fields are  *)
(* the body's keys; NoNum, NoId, NoStr and 0 (project) mark an absent key. *)
(***************************************************************************)
NoInvUpdate ==
  [date |-> NoNum, status |-> NoStr, due_date |-> NoNum, client_id |-> NoId,
   project_id |-> 0, amount |-> NoNum, description |-> FALSE]

\* the for-loop over Object.entries(updates) with the allowlist
InvUpdateFields(upd) ==
  (IF upd.client_id # NoId THEN {"client_id"} ELSE {}) \cup
  (IF upd.project_id # 0 THEN {"project_id"} ELSE {}) \cup
  (IF upd.amount # NoNum THEN {"amount"} ELSE {}) \cup
  (IF upd.description THEN {"description"} ELSE {}) \cup
  (IF upd.date # NoNum THEN {"date"} ELSE {}) \cup
  (IF upd.due_date # NoNum THEN {"due_date"} ELSE {}) \cup
  (IF upd.status # NoStr THEN {"status"} ELSE {})

\* UPDATE invoices SET <fields> WHERE id = $n
ApplyInvUpdate(inv, upd) ==
  [inv EXCEPT
     !.client_id = IF upd.client_id # NoId THEN upd.client_id ELSE @,
     !.project_id = IF upd.project_id # 0 THEN upd.project_id ELSE @,
     !.amount = IF upd.amount # NoNum THEN upd.amount ELSE @,
     !.date = IF upd.date # NoNum THEN upd.date ELSE @,
     !.due_date = IF upd.due_date # NoNum THEN upd.due_date ELSE @,
     !.status = IF upd.status # NoStr THEN upd.status ELSE @]

\* the client test that only looks for the row
ClientInvalidAbsent(client_id) == users[client_id] = NoUser

\* clientResult.rows.length === 0 || !clientResult.rows[0].approved
ClientInvalid(client_id) == users[client_id] = NoUser \/ ~users[client_id].approved

\* PUT /api/invoices/:id after the client and project tests: the field list,
\* then on to the update
InvUpdateBuild(r, req) ==
  IF InvUpdateFields(req.upd) = {}
  THEN Answer(r, Resp(req, req.id, 400, "no_fields"))
  ELSE Await(r, "update", req, inflight[r].user, <<>>)

\* PUT /api/invoices/:id: the users query, the invoice query, the client
\* and project queries when the body names them, the update (of no row when
\* the invoice is gone by then) and the details query
InvUpdate(r, c, id, upd) ==
  LET req == [route |-> "inv_update", id |-> id, caller |-> c, upd |-> upd] IN
  /\ UNCHANGED <<users, projects, timeEntries, today, tokens, westOfUTC, issued>>
  /\ \/ /\ Free(r)
        /\ UNCHANGED invoices
        /\ IF BillingGate(c) # 0
           THEN Answer(r, Resp(req, id, BillingGate(c), BillingGateErr(c)))
           ELSE IF upd.amount # NoNum /\ ~ValidAmount(upd.amount)
           THEN Answer(r, Resp(req, id, 400, "validation"))
           ELSE Await(r, "select", req, UserRow(c), <<>>)
     \/ /\ At(r, "select", req)
        /\ UNCHANGED invoices
        /\ IF invoices[id] = NoInvoice
           THEN Answer(r, Resp(req, id, 404, "not_found"))
           ELSE IF upd.client_id # NoId
           THEN Await(r, "client", req, inflight[r].user, <<>>)
           ELSE IF upd.project_id # 0
           THEN Await(r, "project", req, inflight[r].user, <<>>)
           ELSE InvUpdateBuild(r, req)
     \/ /\ At(r, "client", req)
        /\ UNCHANGED invoices
        /\ IF ClientInvalid(upd.client_id)
           THEN Answer(r, Resp(req, id, 400, "invalid_client"))
           ELSE IF upd.project_id # 0
           THEN Await(r, "project", req, inflight[r].user, <<>>)
           ELSE InvUpdateBuild(r, req)
     \/ /\ At(r, "project", req)
        /\ UNCHANGED invoices
        /\ IF projects[upd.project_id] = NoProject
           THEN Answer(r, Resp(req, id, 400, "project_not_found"))
           ELSE InvUpdateBuild(r, req)
     \/ /\ At(r, "update", req)
        /\ invoices' = IF invoices[id] = NoInvoice THEN invoices
                       ELSE [invoices EXCEPT ![id] = ApplyInvUpdate(invoices[id], upd)]
        /\ Await(r, "details", req, inflight[r].user, <<>>)
     \/ /\ At(r, "details", req)
        /\ UNCHANGED invoices
        /\ Answer(r, Resp(req, id, 200, NoStr))

(***************************************************************************)
(* PUT /api/invoices/:id/payment                                           *)
(***************************************************************************)
\* the cancelled test misspelt
IsCancelledMisspelt(inv) == inv.status = "canceled"

\* if (invoice.status === 'cancelled')
IsCancelled(inv) == inv.status = "cancelled"

(***************************************************************************)
(* parseFloat and the sum of two amounts.  The double nearest to an amount *)
(* of c cents is m * 2^-Shift(c) with 2^52 <= m < 2^53, and                *)
(* 100 * m = c * 2^Shift(c) + Residue(c).  A double that lies near an      *)
(* amount is written [cents, ulps]: the double ulps representable doubles  *)
(* above (below, when negative) the double nearest to cents / 100.         *)
(***************************************************************************)
RECURSIVE Pow2(_)
Pow2(n) == IF n = 0 THEN 1 ELSE 2 * Pow2(n - 1)

RECURSIVE Pow2Mod(_, _)
\* 2^n modulo m
Pow2Mod(n, m) == IF n = 0 THEN 1 % m ELSE (2 * Pow2Mod(n - 1, m)) % m

RECURSIVE Binade(_)
\* the exponent k with 2^k <= c / 100 < 2^(k + 1), c >= 1
Binade(c) ==
  IF c >= 200 THEN Binade(c \div 2) + 1
  ELSE IF c >= 100 THEN 0
  ELSE Binade(2 * c) - 1

Shift(c) == 52 - Binade(c)

\* 100 * m - c * 2^Shift(c) for the mantissa m nearest to c * 2^Shift(c) / 100;
\* a tie (50) does not occur, 4 divides c * 2^Shift(c)
Residue(c) ==
  LET t == ((c % 100) * Pow2Mod(Shift(c), 100)) % 100 IN
  IF t < 50 THEN 0 - t ELSE 100 - t

\* the last bit of the mantissa m of the double nearest to c / 100
MantissaOdd(c) ==
  ((((c % 200) * Pow2Mod(Shift(c), 200)) % 200) + Residue(c) + 200) % 200 = 100

\* c / 100 is a power of two, below which the doubles lie twice as close
IsPowerOfTwo(c) ==
  IF Binade(c) >= 0 THEN c = 100 * Pow2(Binade(c)) ELSE c * Pow2(0 - Binade(c)) = 100

\* parseFloat of a stored or sent amount of c cents
parseFloat(c) == [cents |-> c, ulps |-> 0]

\* x + y of the doubles x = parseFloat(q) and y = parseFloat(p): the exact
\* sum, rounded to the nearest double, ties to the even mantissa, counted
\* from the double nearest to (q + p) / 100
SumUlps(q, p) ==
  IF q = 0 \/ p = 0 THEN 0
  ELSE LET n == q + p
           S == IF Shift(q) > Shift(p) THEN Shift(q) ELSE Shift(p)
           d == (Residue(q) * Pow2(S - Shift(q)) + Residue(p) * Pow2(S - Shift(p))
                 - Residue(n) * Pow2(S - Shift(n))) \div 100
           U == IF d < 0 /\ IsPowerOfTwo(n) THEN Pow2(S - Shift(n) - 1)
                ELSE Pow2(S - Shift(n))
           f == d \div U
           rem == d % U
       IN  IF 2 * rem < U THEN f
           ELSE IF 2 * rem > U THEN f + 1
           ELSE IF (f % 2 = 1) = MantissaOdd(n) THEN f ELSE f + 1

\* x > y and x >= y of doubles that lie near amounts
FloatGt(x, y) == x.cents > y.cents \/ (x.cents = y.cents /\ x.ulps > y.ulps)
FloatGe(x, y) == x.cents > y.cents \/ (x.cents = y.cents /\ x.ulps >= y.ulps)

\* the markAsPaid branch leaving the accumulator as it was
MarkPaidAmountKept(inv) == parseFloat(inv.paid_amount)

\* var newPaidAmount = invoiceAmount (markAsPaid branch)
MarkPaidAmount(inv) == parseFloat(inv.amount)

\* var newPaidAmount = currentPaidAmount + paymentAmount, of
\* parseFloat(invoice.paid_amount) and parseFloat(amount)
PartialPaidAmount(inv, paymentAmount) ==
  [cents |-> inv.paid_amount + paymentAmount,
   ulps |-> SumUlps(inv.paid_amount, paymentAmount)]

\* the balance test letting through a total ten cents above the amount
PaymentExceedsLax(newPaidAmount, invoiceAmount) ==
  FloatGt(newPaidAmount, parseFloat(invoiceAmount.cents + 10))

\* if (newPaidAmount > invoiceAmount)
PaymentExceeds(newPaidAmount, invoiceAmount) == FloatGt(newPaidAmount, invoiceAmount)

\* (invoiceAmount - currentPaidAmount).toFixed(2), the balance named in the
\* rejection: the difference of the two doubles to the nearest cent
RemainingBalance(inv) == inv.amount - inv.paid_amount

\* newPaidAmount >= invoiceAmount ? 'paid' : 'pending'
PartialStatus(newPaidAmount, invoiceAmount) ==
  IF FloatGe(newPaidAmount, invoiceAmount) THEN "paid" ELSE "pending"

PayResp(req, code, err) ==
  [Resp(req, req.id, code, err) EXCEPT !.mark = req.markAsPaid]

\* the paid_amount column holds a fixed-precision amount, kept to the cent
\* (the handler reads it back as text, through parseFloat): a double written
\* to it is stored as the amount it lies near
StoredAmount(x) == x.cents

\* UPDATE invoices SET paid_amount = $1, status = $2 WHERE id = $3
SetPayment(tbl, id, newPaidAmount, newStatus) ==
  IF tbl[id] = NoInvoice THEN tbl
  ELSE [tbl EXCEPT ![id] = [@ EXCEPT !.paid_amount = StoredAmount(newPaidAmount),
                                     !.status = newStatus]]

\* PUT /api/invoices/:id/payment: the users query, the invoice query, on
\* whose row the new amount and status are computed, and the update that
\* writes them
InvPayment(r, c, id, amount, markAsPaid) ==
  LET req == [route |-> "inv_payment", id |-> id, caller |-> c, amount |-> amount,
              markAsPaid |-> markAsPaid] IN
  /\ UNCHANGED <<users, projects, timeEntries, today, tokens, westOfUTC, issued>>
  /\ \/ /\ Free(r)
        /\ UNCHANGED invoices
        /\ IF BillingGate(c) # 0
           THEN Answer(r, PayResp(req, BillingGate(c), BillingGateErr(c)))
           ELSE IF ~ValidAmount(amount)
           THEN Answer(r, PayResp(req, 400, "validation"))
           ELSE Await(r, "select", req, UserRow(c), <<>>)
     \/ /\ At(r, "select", req)
        /\ UNCHANGED invoices
        /\ IF invoices[id] = NoInvoice
           THEN Answer(r, PayResp(req, 404, "not_found"))
           ELSE IF IsCancelled(invoices[id])
           THEN Answer(r, PayResp(req, 400, "cancelled"))
           ELSE IF markAsPaid
           THEN Await(r, "update", req, inflight[r].user,
                      [newPaidAmount |-> MarkPaidAmount(invoices[id]), newStatus |-> "paid"])
           ELSE IF PaymentExceeds(PartialPaidAmount(invoices[id], amount),
                                  parseFloat(invoices[id].amount))
           THEN Answer(r, [PayResp(req, 400, "exceeds") EXCEPT
                             !.remaining = RemainingBalance(invoices[id])])
           ELSE Await(r, "update", req, inflight[r].user,
                      [newPaidAmount |-> PartialPaidAmount(invoices[id], amount),
                       newStatus |-> PartialStatus(PartialPaidAmount(invoices[id], amount),
                                                   parseFloat(invoices[id].amount))])
     \/ /\ At(r, "update", req)
        /\ invoices' = SetPayment(invoices, id, inflight[r].loc.newPaidAmount,
                                  inflight[r].loc.newStatus)
        /\ Answer(r, PayResp(req, 200, NoStr))

\* DELETE /api/invoices/:id: the users query, the invoice query, the delete
InvDelete(r, c, id) ==
  LET req == [route |-> "inv_delete", id |-> id, caller |-> c] IN
  /\ UNCHANGED <<users, projects, timeEntries, today, tokens, westOfUTC, issued>>
  /\ \/ /\ Free(r)
        /\ UNCHANGED invoices
        /\ IF BillingGate(c) # 0
           THEN Answer(r, Resp(req, id, BillingGate(c), BillingGateErr(c)))
           ELSE IF ~requireAdmin(users[c].roles)
           THEN Answer(r, Resp(req, id, 403, "required_roles"))
           ELSE Await(r, "select", req, UserRow(c), <<>>)
     \/ /\ At(r, "select", req)
        /\ UNCHANGED invoices
        /\ IF invoices[id] = NoInvoice
           THEN Answer(r, Resp(req, id, 404, "not_found"))
           ELSE Await(r, "delete", req, inflight[r].user, <<>>)
     \/ /\ At(r, "delete", req)
        /\ invoices' = [invoices EXCEPT ![id] = NoInvoice]
        /\ Answer(r, Resp(req, id, 200, NoStr))

\* SUM(CASE WHEN status = ... THEN amount ELSE 0 END)
RECURSIVE SumAmount(_, _)
SumAmount(ids, status) ==
  IF ids = {} THEN 0
  ELSE LET i == CHOOSE j \in ids : TRUE IN
       (IF invoices[i].status = status THEN invoices[i].amount ELSE 0)
         + SumAmount(ids \ {i}, status)

CountInvStatus(status) == Cardinality({i \in StoredInvoiceIds : invoices[i].status = status})

\* GET /api/invoices/stats/overview: the one row of the aggregate query
\* (without the average)
InvStats(r, c) ==
  LET req == [route |-> "inv_stats", caller |-> c] IN
  /\ UNCHANGED <<users, projects, invoices, timeEntries, today, tokens, westOfUTC, issued>>
  /\ \/ /\ Free(r)
        /\ IF BillingGate(c) # 0
           THEN Answer(r, Resp(req, 0, BillingGate(c), BillingGateErr(c)))
           ELSE Await(r, "stats", req, UserRow(c), <<>>)
     \/ /\ At(r, "stats", req)
        /\ Answer(r, [Resp(req, 0, 200, NoStr) EXCEPT
                     !.rows = {[total |-> Cardinality(StoredInvoiceIds),
                                pending |-> CountInvStatus("pending"),
                                paid |-> CountInvStatus("paid"),
                                overdue |-> CountInvStatus("overdue"),
                                cancelled |-> CountInvStatus("cancelled"),
                                totalRevenue |-> SumAmount(StoredInvoiceIds, "paid"),
                                pendingRevenue |-> SumAmount(StoredInvoiceIds, "pending"),
                                overdueRevenue |-> SumAmount(StoredInvoiceIds, "overdue")]}])

\* GET /api/invoices/export/csv with the status filter (NoStr: absent); a
\* row of the file is kept as the record of its columns
InvExport(r, c, status) ==
  LET req == [route |-> "inv_export", status |-> status, caller |-> c] IN
  /\ UNCHANGED <<users, projects, invoices, timeEntries, today, tokens, westOfUTC, issued>>
  /\ \/ /\ Free(r)
        /\ IF BillingGate(c) # 0
           THEN Answer(r, Resp(req, 0, BillingGate(c), BillingGateErr(c)))
           ELSE Await(r, "export", req, UserRow(c), <<>>)
     \/ /\ At(r, "export", req)
        /\ Answer(r, [Resp(req, 0, 200, NoStr) EXCEPT
                     !.rows = {[status |-> invoices[i].status,
                                due_date |-> invoices[i].due_date,
                                amount |-> invoices[i].amount,
                                number |-> invoices[i].number,
                                paid_amount |-> invoices[i].paid_amount,
                                balance |-> invoices[i].amount - invoices[i].paid_amount] :
                               i \in {j \in StoredInvoiceIds :
                                        status = NoStr \/ invoices[j].status = status}}])

(***************************************************************************)
(* routes/projects                                                         *)
(***************************************************************************)
StoredProjectIds == {i \in ProjectIds : projects[i] # NoProject}

\* the id of the next row inserted (DEFAULT gen_random_uuid()): an id no
\* row, stored or deleted, has had
FreshProjectId == issued.projects + 1

\* authenticateToken followed by the canAccessProjects test: 0 when passed.
ProjectGate(c) ==
  IF authenticateToken(c) # 0 THEN authenticateToken(c)
  ELSE IF ~canAccessProjects(users[c].roles) THEN 403
  ELSE 0

ProjectGateErr(c) ==
  IF authenticateToken(c) # 0 THEN AuthErr(authenticateToken(c)) ELSE "no_project_role"

\* param('id').isUUID(): BadId stands for an id that is not a UUID
BadId == 0
isUUID(id) == id # BadId

\* the status of a 'Validation failed' answer
ValidationStatus == 400

\* the permission test with the ownership comparison left out
canEditAnyProject(user, project) == canAccessProjects(user.roles)

\* admin || madmin || project.created_by === req.user.id
canEdit(user, project) == isPrivileged(user.roles) \/ project.created_by = user.id

\* end_date && new Date(end_date) < new Date(start_date)
EndBeforeStart(start_date, end_date) == end_date # NoNum /\ end_date < start_date

\* POST /api/projects; status NoStr is an absent key (default 'pending').
\* The users query, the insert and the creator query.
ProjCreate(r, c, start_date, end_date, statusIn) ==
  LET req == [route |-> "proj_create", status |-> statusIn, caller |-> c,
              start_date |-> start_date, end_date |-> end_date]
      status == IF statusIn = NoStr THEN "pending" ELSE statusIn IN
  /\ UNCHANGED <<users, invoices, timeEntries, today, tokens, westOfUTC>>
  /\ \/ /\ Free(r)
        /\ UNCHANGED <<projects, issued>>
        /\ IF ProjectGate(c) # 0
           THEN Answer(r, Resp(req, 0, ProjectGate(c), ProjectGateErr(c)))
           ELSE IF EndBeforeStart(start_date, end_date)
           THEN Answer(r, Resp(req, 0, 400, "end_before_start"))
           ELSE IF ~isPrivileged(users[c].roles) /\ end_date # NoNum /\ status # "completed"
           THEN Answer(r, Resp(req, 0, 400, "end_needs_completed"))
           ELSE Await(r, "insert", req, UserRow(c), <<>>)
     \/ /\ At(r, "insert", req)
        /\ FreshProjectId \in ProjectIds
        /\ issued' = [issued EXCEPT !.projects = FreshProjectId]
        /\ projects' = [projects EXCEPT ![FreshProjectId] =
             [status |-> status, created_by |-> inflight[r].user.id,
              start_date |-> start_date, end_date |-> end_date]]
        /\ Await(r, "creator", req, inflight[r].user, [id |-> FreshProjectId])
     \/ /\ At(r, "creator", req)
        /\ UNCHANGED <<projects, issued>>
        /\ Answer(r, Resp(req, inflight[r].loc.id, 201, NoStr))

\* GET /api/projects/:id
ProjGet(r, c, id) ==
  LET req == [route |-> "proj_get", id |-> id, caller |-> c] IN
  /\ UNCHANGED <<users, projects, invoices, timeEntries, today, tokens, westOfUTC, issued>>
  /\ \/ /\ Free(r)
        /\ IF ProjectGate(c) # 0
           THEN Answer(r, Resp(req, id, ProjectGate(c), ProjectGateErr(c)))
           ELSE Await(r, "select", req, UserRow(c), <<>>)
     \/ /\ At(r, "select", req)
        /\ IF projects[id] = NoProject
           THEN Answer(r, Resp(req, id, 404, "not_found"))
           ELSE IF ~canEdit(inflight[r].user, projects[id])
           THEN Answer(r, Resp(req, id, 403, "not_owner"))
           ELSE Answer(r, Resp(req, id, 200, NoStr))

(***************************************************************************)
(* PUT /api/projects/:id.  A body is a record of its keys; NoNum and NoStr *)
(* mark an absent key, name tells whether name or description is sent.     *)
(***************************************************************************)
NoProjUpdate ==
  [name |-> FALSE, status |-> NoStr, start_date |-> NoNum, end_date |-> NoNum]

ProjUpdateFields(upd) ==
  (IF upd.name THEN {"name"} ELSE {}) \cup
  (IF upd.start_date # NoNum THEN {"start_date"} ELSE {}) \cup
  (IF upd.end_date # NoNum THEN {"end_date"} ELSE {}) \cup
  (IF upd.status # NoStr THEN {"status"} ELSE {})

\* UPDATE projects SET <fields> WHERE id = $n
ApplyProjUpdate(project, upd) ==
  [project EXCEPT
     !.start_date = IF upd.start_date # NoNum THEN upd.start_date ELSE @,
     !.end_date = IF upd.end_date # NoNum THEN upd.end_date ELSE @,
     !.status = IF upd.status # NoStr THEN upd.status ELSE @]

\* PUT /api/projects/:id: the users query, the project query, the update
\* and the creator query.  When the project is gone by the time of the
\* update, result.rows[0] is undefined and reading its created_by throws:
\* the catch branch answers 500.
ProjUpdate(r, c, id, upd) ==
  LET req == [route |-> "proj_update", id |-> id, caller |-> c, upd |-> upd] IN
  /\ UNCHANGED <<users, invoices, timeEntries, today, tokens, westOfUTC, issued>>
  /\ \/ /\ Free(r)
        /\ UNCHANGED projects
        /\ IF ProjectGate(c) # 0
           THEN Answer(r, Resp(req, id, ProjectGate(c), ProjectGateErr(c)))
           ELSE Await(r, "select", req, UserRow(c), <<>>)
     \/ /\ At(r, "select", req)
        /\ UNCHANGED projects
        /\ IF projects[id] = NoProject
           THEN Answer(r, Resp(req, id, 404, "not_found"))
           ELSE IF ~canEdit(inflight[r].user, projects[id])
           THEN Answer(r, Resp(req, id, 403, "not_owner"))
           ELSE IF /\ ~isPrivileged(inflight[r].user.roles)
                   /\ upd.end_date # NoNum /\ upd.status # "completed"
           THEN Answer(r, Resp(req, id, 400, "end_needs_completed"))
           ELSE IF ProjUpdateFields(upd) = {}
           THEN Answer(r, Resp(req, id, 400, "no_fields"))
           ELSE Await(r, "update", req, inflight[r].user, <<>>)
     \/ /\ At(r, "update", req)
        /\ IF projects[id] = NoProject
           THEN /\ UNCHANGED projects
                /\ Answer(r, Resp(req, id, 500, "server_error"))
           ELSE /\ projects' = [projects EXCEPT ![id] = ApplyProjUpdate(projects[id], upd)]
                /\ Await(r, "creator", req, inflight[r].user, <<>>)
     \/ /\ At(r, "creator", req)
        /\ UNCHANGED projects
        /\ Answer(r, Resp(req, id, 200, NoStr))

\* the status of the 'Project is already completed' answer
AlreadyCompletedStatus == 400

\* project.status === 'completed'
IsCompleted(project) == project.status = "completed"

\* PUT /api/projects/:id/complete; id ranges over ProjectIds and BadId.  The
\* users query, the project query, the update and the creator query; a
\* project gone by the time of the update gives 500 as in the update route.
ProjComplete(r, c, id) ==
  LET req == [route |-> "proj_complete", id |-> id, caller |-> c] IN
  /\ UNCHANGED <<users, invoices, timeEntries, today, tokens, westOfUTC, issued>>
  /\ \/ /\ Free(r)
        /\ UNCHANGED projects
        /\ IF authenticateToken(c) # 0
           THEN Answer(r, Resp(req, id, authenticateToken(c), AuthErr(authenticateToken(c))))
           ELSE IF ~isUUID(id)
           THEN Answer(r, Resp(req, id, ValidationStatus, "validation_failed"))
           ELSE IF ~canAccessProjects(users[c].roles)
           THEN Answer(r, Resp(req, id, 403, "no_project_role"))
           ELSE Await(r, "select", req, UserRow(c), <<>>)
     \/ /\ At(r, "select", req)
        /\ UNCHANGED projects
        /\ IF projects[id] = NoProject
           THEN Answer(r, Resp(req, id, 404, "not_found"))
           ELSE IF ~canEdit(inflight[r].user, projects[id])
           THEN Answer(r, Resp(req, id, 403, "not_owner"))
           ELSE IF IsCompleted(projects[id])
           THEN Answer(r, Resp(req, id, AlreadyCompletedStatus, "already_completed"))
           ELSE Await(r, "update", req, inflight[r].user, <<>>)
     \/ /\ At(r, "update", req)
        /\ IF projects[id] = NoProject
           THEN /\ UNCHANGED projects
                /\ Answer(r, Resp(req, id, 500, "server_error"))
           ELSE /\ projects' = [projects EXCEPT ![id] =
                     [@ EXCEPT !.status = "completed", !.end_date = today]]
                /\ Await(r, "creator", req, inflight[r].user, <<>>)
     \/ /\ At(r, "creator", req)
        /\ UNCHANGED projects
        /\ Answer(r, Resp(req, id, 200, NoStr))

\* a row of the projects table as a query returns it
ProjRow(i) ==
  [id |-> i, status |-> projects[i].status, created_by |-> projects[i].created_by,
   start_date |-> projects[i].start_date, end_date |-> projects[i].end_date]

\* the list query without the clause for non-privileged callers
ProjListWhereUnscoped(user, status, user_id) ==
  {i \in StoredProjectIds :
     /\ (status # NoStr => projects[i].status = status)
     /\ (user_id # NoId => projects[i].created_by = user_id)}

\* the WHERE clause of the list query: the status and user_id filters of
\* the request (NoStr, NoId: absent), and created_by = req.user.id for a
\* caller who is neither admin nor madmin
ProjListWhere(user, status, user_id) ==
  {i \in StoredProjectIds :
     /\ (status # NoStr => projects[i].status = status)
     /\ (user_id # NoId => projects[i].created_by = user_id)
     /\ (~isPrivileged(user.roles) => projects[i].created_by = user.id)}

\* GET /api/projects (search, limit and offset not sent): the users query,
\* the list query and the count query
ProjList(r, c, status, user_id) ==
  LET req == [route |-> "proj_list", status |-> status, caller |-> c,
              user_id |-> user_id] IN
  /\ UNCHANGED <<users, projects, invoices, timeEntries, today, tokens, westOfUTC, issued>>
  /\ \/ /\ Free(r)
        /\ IF ProjectGate(c) # 0
           THEN Answer(r, Resp(req, 0, ProjectGate(c), ProjectGateErr(c)))
           ELSE Await(r, "list", req, UserRow(c), <<>>)
     \/ /\ At(r, "list", req)
        /\ Await(r, "count", req, inflight[r].user,
                 [rows |-> {ProjRow(i) :
                              i \in ProjListWhere(inflight[r].user, status, user_id)}])
     \/ /\ At(r, "count", req)
        /\ Answer(r, [Resp(req, 0, 200, NoStr) EXCEPT
                        !.rows = inflight[r].loc.rows,
                        !.total =
                          Cardinality(ProjListWhere(inflight[r].user, status, user_id))])

\* the WHERE clause of the statistics query
ProjStatsWhere(user) ==
  {i \in StoredProjectIds : ~isPrivileged(user.roles) => projects[i].created_by = user.id}

\* COUNT(CASE WHEN status = ... THEN 1 END) over the selected rows
CountStatus(ids, status) == Cardinality({i \in ids : projects[i].status = status})

\* GET /api/projects/stats/overview: the one row of the aggregate query
ProjStats(r, c) ==
  LET req == [route |-> "proj_stats", caller |-> c]
      sel == ProjStatsWhere(inflight[r].user) IN
  /\ UNCHANGED <<users, projects, invoices, timeEntries, today, tokens, westOfUTC, issued>>
  /\ \/ /\ Free(r)
        /\ IF ProjectGate(c) # 0
           THEN Answer(r, Resp(req, 0, ProjectGate(c), ProjectGateErr(c)))
           ELSE Await(r, "stats", req, UserRow(c), <<>>)
     \/ /\ At(r, "stats", req)
        /\ Answer(r, [Resp(req, 0, 200, NoStr) EXCEPT
                     !.rows = {[total |-> Cardinality(sel),
                                pending |-> CountStatus(sel, "pending"),
                                ongoing |-> CountStatus(sel, "ongoing"),
                                completed |-> CountStatus(sel, "completed")]}])

\* DELETE /api/projects/:id: the users query, the project query, the delete
ProjDelete(r, c, id) ==
  LET req == [route |-> "proj_delete", id |-> id, caller |-> c] IN
  /\ UNCHANGED <<users, invoices, timeEntries, today, tokens, westOfUTC, issued>>
  /\ \/ /\ Free(r)
        /\ UNCHANGED projects
        /\ IF authenticateToken(c) # 0
           THEN Answer(r, Resp(req, id, authenticateToken(c), AuthErr(authenticateToken(c))))
           ELSE IF ~requireAdmin(users[c].roles)
           THEN Answer(r, Resp(req, id, 403, "required_roles"))
           ELSE Await(r, "select", req, UserRow(c), <<>>)
     \/ /\ At(r, "select", req)
        /\ UNCHANGED projects
        /\ IF projects[id] = NoProject
           THEN Answer(r, Resp(req, id, 404, "not_found"))
           ELSE Await(r, "delete", req, inflight[r].user, <<>>)
     \/ /\ At(r, "delete", req)
        /\ projects' = [projects EXCEPT ![id] = NoProject]
        /\ Answer(r, Resp(req, id, 200, NoStr))

(***************************************************************************)
(* routes/users and routes/auth.  A users row is [roles, approved, email,  *)
(* username, name, password_hash]; e.., m.., n.. and pw.. are email        *)
(* addresses, usernames, names and passwords.  No route deletes a user.    *)
(***************************************************************************)
\* roles are arrays: a role may be repeated, and the order is kept
validRoles == <<"staff", "user", "madmin", "admin">>

\* roles.filter(role => !validRoles.includes(role))
invalidRoles(roles) == SelectSeq(roles, LAMBDA role : ~includes(validRoles, role))

\* the roles validator without its staff test
ValidRolesKnownOnly(roles) == Len(invalidRoles(roles)) = 0

\* the custom validator of body('roles'): known roles only, staff included
ValidRoles(roles) == Len(invalidRoles(roles)) = 0 /\ includes(roles, "staff")

\* normalizeEmail(): "E7" is the address e7 written with capitals
normalizeEmail(e) == IF e = "E7" THEN "e7" ELSE e

\* bcrypt.hash and bcrypt.compare
bcryptHash(password) == [bcrypt |-> password]
bcryptCompare(password, hash) == hash = bcryptHash(password)

StoredUserIds == {u \in UserIds : users[u] # NoUser}

FreshUserId == CHOOSE u \in UserIds \ StoredUserIds : TRUE

\* authenticateToken followed by requireAdmin: 0 when passed
AdminGate(c) ==
  IF authenticateToken(c) # 0 THEN authenticateToken(c)
  ELSE IF ~requireAdmin(users[c].roles) THEN 403
  ELSE 0

AdminGateErr(c) ==
  IF authenticateToken(c) # 0 THEN AuthErr(authenticateToken(c)) ELSE "required_roles"

\* the WHERE clause of the user list: approved is "true", "false" or NoStr
UserListWhere(approved) ==
  {v \in StoredUserIds : approved # NoStr => users[v].approved = (approved = "true")}

\* GET /api/users: the users query of the gate, the list query, the count
UserList(r, c, approved) ==
  LET req == [route |-> "user_list", approved |-> approved, caller |-> c] IN
  /\ UNCHANGED <<users, projects, invoices, timeEntries, today, tokens, westOfUTC, issued>>
  /\ \/ /\ Free(r)
        /\ IF AdminGate(c) # 0
           THEN Answer(r, Resp(req, 0, AdminGate(c), AdminGateErr(c)))
           ELSE Await(r, "list", req, UserRow(c), <<>>)
     \/ /\ At(r, "list", req)
        /\ Await(r, "count", req, inflight[r].user,
                 [rows |-> {UserRow(u) : u \in UserListWhere(approved)}])
     \/ /\ At(r, "count", req)
        /\ Answer(r, [Resp(req, 0, 200, NoStr) EXCEPT
                        !.rows = inflight[r].loc.rows,
                        !.total = Cardinality(UserListWhere(approved))])

\* GET /api/users/:id: the users query of authenticateToken, the profile
\* query and, for a profile with project access, the project statistics
\* (which the answer of the model leaves out)
UserGet(r, c, id) ==
  LET req == [route |-> "user_get", id |-> id, caller |-> c] IN
  /\ UNCHANGED <<users, projects, invoices, timeEntries, today, tokens, westOfUTC, issued>>
  /\ \/ /\ Free(r)
        /\ IF authenticateToken(c) # 0
           THEN Answer(r, Resp(req, 0, authenticateToken(c), AuthErr(authenticateToken(c))))
           ELSE IF id # c /\ ~includes(users[c].roles, "admin")
           THEN Answer(r, Resp(req, 0, 403, "not_own_profile"))
           ELSE Await(r, "select", req, UserRow(c), <<>>)
     \/ /\ At(r, "select", req)
        /\ IF users[id] = NoUser
           THEN Answer(r, Resp(req, 0, 404, "not_found"))
           ELSE IF canAccessProjects(users[id].roles)
           THEN Await(r, "stats", req, inflight[r].user, [rows |-> {UserRow(id)}])
           ELSE Answer(r, [Resp(req, 0, 200, NoStr) EXCEPT !.rows = {UserRow(id)}])
     \/ /\ At(r, "stats", req)
        /\ Answer(r, [Resp(req, 0, 200, NoStr) EXCEPT !.rows = inflight[r].loc.rows])

\* the existence query with its username test left out
UsersWithEmail(email, username) == {u \in StoredUserIds : users[u].email = email}

\* SELECT id FROM users WHERE email = $1 OR username = $2
UsersWith(email, username) ==
  {u \in StoredUserIds : users[u].email = email \/ users[u].username = username}

\* POST /api/users; approved NoStr is an absent key (default true).  The
\* users query of the gate, the existence query and the insert.
UserCreate(r, c, email, username, password, roles, approved) ==
  LET req == [route |-> "user_create", roles |-> roles, approved |-> approved,
              email |-> email, username |-> username, caller |-> c,
              password |-> password] IN
  /\ UNCHANGED <<projects, invoices, timeEntries, today, tokens, westOfUTC, issued>>
  /\ \/ /\ Free(r)
        /\ UNCHANGED users
        /\ IF AdminGate(c) # 0
           THEN Answer(r, Resp(req, 0, AdminGate(c), AdminGateErr(c)))
           ELSE IF ~ValidRoles(roles)
           THEN Answer(r, Resp(req, 0, ValidationStatus, "validation_failed"))
           ELSE Await(r, "existing", req, UserRow(c), <<>>)
     \/ /\ At(r, "existing", req)
        /\ UNCHANGED users
        /\ IF UsersWith(normalizeEmail(email), username) # {}
           THEN Answer(r, Resp(req, 0, 400, "already_exists"))
           ELSE Await(r, "insert", req, inflight[r].user, <<>>)
     \/ /\ At(r, "insert", req)
        /\ StoredUserIds # UserIds
        /\ users' = [users EXCEPT ![FreshUserId] =
             [roles |-> roles, approved |-> (approved # "false"),
              email |-> normalizeEmail(email), username |-> username,
              name |-> "n1", password_hash |-> bcryptHash(password)]]
        /\ Answer(r, [Resp(req, 0, 201, NoStr) EXCEPT
                        !.rows = {[id |-> FreshUserId, roles |-> roles,
                                   approved |-> (approved # "false")]}])

(***************************************************************************)
(* PUT /api/users/:id.  A body is [keys, name, email, username, roles,     *)
(* approved]: keys is Object.keys(req.body) ("other" is a key no allowlist *)
(* names), the other fields are the values of the keys that are present.   *)
(***************************************************************************)
UserAllowedFields(isAdmin) ==
  IF isAdmin THEN {"name", "email", "username", "roles", "approved"}
  ELSE {"name", "email", "username"}

\* the non-admin allowlist with roles let through
UserInvalidFieldsLax(upd) == upd.keys \ {"name", "email", "username", "roles"}

\* submittedFields.filter(field => !allowedFields.includes(field))
UserInvalidFields(upd) == upd.keys \ {"name", "email", "username"}

\* SELECT id FROM users WHERE (email = $1 OR username = $2) AND id != $3,
\* with updates.email || user.email and updates.username || user.username
\* for the row user the earlier query returned
UserDuplicates(id, upd, user) ==
  UsersWith(IF "email" \in upd.keys THEN normalizeEmail(upd.email) ELSE user.email,
            IF "username" \in upd.keys THEN upd.username ELSE user.username) \ {id}

\* UPDATE users SET <fields> WHERE id = $n
ApplyUserUpdate(user, upd, fields) ==
  [user EXCEPT
     !.name = IF "name" \in fields THEN upd.name ELSE @,
     !.email = IF "email" \in fields THEN normalizeEmail(upd.email) ELSE @,
     !.username = IF "username" \in fields THEN upd.username ELSE @,
     !.roles = IF "roles" \in fields THEN upd.roles ELSE @,
     !.approved = IF "approved" \in fields THEN upd.approved ELSE @]

\* PUT /api/users/:id after the duplicate test: the field list, then on to
\* the update
UserUpdateBuild(r, req) ==
  IF req.upd.keys \cap UserAllowedFields(includes(inflight[r].user.roles, "admin")) = {}
  THEN Answer(r, Resp(req, 0, 400, "no_fields"))
  ELSE Await(r, "update", req, inflight[r].user, <<>>)

\* PUT /api/users/:id: the users query of authenticateToken, the query of
\* the row to update, the duplicate query when the body names an email or
\* a username, and the update
UserUpdate(r, c, id, upd) ==
  LET req == [route |-> "user_update", id |-> id, caller |-> c, upd |-> upd]
      isAdmin == includes(inflight[r].user.roles, "admin") IN
  /\ UNCHANGED <<projects, invoices, timeEntries, today, tokens, westOfUTC, issued>>
  /\ \/ /\ Free(r)
        /\ UNCHANGED users
        /\ IF authenticateToken(c) # 0
           THEN Answer(r, Resp(req, 0, authenticateToken(c), AuthErr(authenticateToken(c))))
           ELSE IF "roles" \in upd.keys /\ ~ValidRoles(upd.roles)
           THEN Answer(r, Resp(req, 0, ValidationStatus, "validation_failed"))
           ELSE IF id # c /\ ~includes(users[c].roles, "admin")
           THEN Answer(r, Resp(req, 0, 403, "not_own_profile"))
           ELSE Await(r, "select", req, UserRow(c), <<>>)
     \/ /\ At(r, "select", req)
        /\ UNCHANGED users
        /\ IF users[id] = NoUser
           THEN Answer(r, Resp(req, 0, 404, "not_found"))
           ELSE IF ~isAdmin /\ UserInvalidFields(upd) # {}
           THEN Answer(r, Resp(req, 0, 403, "fields_not_allowed"))
           ELSE IF upd.keys \cap {"email", "username"} # {}
           THEN Await(r, "duplicate", req, inflight[r].user, [user |-> users[id]])
           ELSE UserUpdateBuild(r, req)
     \/ /\ At(r, "duplicate", req)
        /\ UNCHANGED users
        /\ IF UserDuplicates(id, upd, inflight[r].loc.user) # {}
           THEN Answer(r, Resp(req, 0, 400, "already_exists"))
           ELSE UserUpdateBuild(r, req)
     \/ /\ At(r, "update", req)
        /\ users' = [users EXCEPT ![id] =
             ApplyUserUpdate(users[id], upd, upd.keys \cap UserAllowedFields(isAdmin))]
        /\ Answer(r, Resp(req, 0, 200, NoStr))

\* PUT /api/users/:id/password
UserResetPassword(r, c, id, newPassword) ==
  LET req == [route |-> "user_password", id |-> id, caller |-> c,
              newPassword |-> newPassword] IN
  /\ UNCHANGED <<projects, invoices, timeEntries, today, tokens, westOfUTC, issued>>
  /\ \/ /\ Free(r)
        /\ UNCHANGED users
        /\ IF AdminGate(c) # 0
           THEN Answer(r, Resp(req, 0, AdminGate(c), AdminGateErr(c)))
           ELSE Await(r, "select", req, UserRow(c), <<>>)
     \/ /\ At(r, "select", req)
        /\ UNCHANGED users
        /\ IF users[id] = NoUser
           THEN Answer(r, Resp(req, 0, 404, "not_found"))
           ELSE Await(r, "update", req, inflight[r].user, <<>>)
     \/ /\ At(r, "update", req)
        /\ users' = [users EXCEPT ![id].password_hash = bcryptHash(newPassword)]
        /\ Answer(r, Resp(req, 0, 200, NoStr))

\* PUT /api/users/:id/approve
UserApprove(r, c, id) ==
  LET req == [route |-> "user_approve", id |-> id, caller |-> c] IN
  /\ UNCHANGED <<projects, invoices, timeEntries, today, tokens, westOfUTC, issued>>
  /\ \/ /\ Free(r)
        /\ UNCHANGED users
        /\ IF AdminGate(c) # 0
           THEN Answer(r, Resp(req, 0, AdminGate(c), AdminGateErr(c)))
           ELSE Await(r, "select", req, UserRow(c), <<>>)
     \/ /\ At(r, "select", req)
        /\ UNCHANGED users
        /\ IF users[id] = NoUser
           THEN Answer(r, Resp(req, 0, 404, "not_found"))
           ELSE IF users[id].approved
           THEN Answer(r, Resp(req, 0, 400, "already_approved"))
           ELSE Await(r, "update", req, inflight[r].user, <<>>)
     \/ /\ At(r, "update", req)
        /\ users' = [users EXCEPT ![id].approved = TRUE]
        /\ Answer(r, Resp(req, 0, 200, NoStr))

\* array_length(roles, 1) = 1 AND 'staff' = ANY(roles)
isStaffOnly(roles) == Len(roles) = 1 /\ includes(roles, "staff")

\* GET /api/users/stats/overview: the one row of the aggregate query
UserStats(r, c) ==
  LET req == [route |-> "user_stats", caller |-> c] IN
  /\ UNCHANGED <<users, projects, invoices, timeEntries, today, tokens, westOfUTC, issued>>
  /\ \/ /\ Free(r)
        /\ IF AdminGate(c) # 0
           THEN Answer(r, Resp(req, 0, AdminGate(c), AdminGateErr(c)))
           ELSE Await(r, "stats", req, UserRow(c), <<>>)
     \/ /\ At(r, "stats", req)
        /\ Answer(r, [Resp(req, 0, 200, NoStr) EXCEPT
                     !.rows = {[total |-> Cardinality(StoredUserIds),
                                approved |-> Cardinality({u \in StoredUserIds :
                                                            users[u].approved}),
                                pending |-> Cardinality({u \in StoredUserIds :
                                                           ~users[u].approved}),
                                admins |-> Cardinality({u \in StoredUserIds :
                                                          includes(users[u].roles, "admin")}),
                                staffOnly |-> Cardinality({u \in StoredUserIds :
                                                             isStaffOnly(users[u].roles)})]}])

\* POST /api/auth/register: the existence query and the insert
Register(r, email, username, password) ==
  LET req == [route |-> "register", email |-> email, username |-> username,
              password |-> password] IN
  /\ UNCHANGED <<projects, invoices, timeEntries, today, tokens, westOfUTC, issued>>
  /\ \/ /\ Free(r)
        /\ UNCHANGED users
        /\ IF UsersWith(normalizeEmail(email), username) # {}
           THEN Answer(r, Resp(req, 0, 400, "already_exists"))
           ELSE Await(r, "insert", req, NoUser, <<>>)
     \/ /\ At(r, "insert", req)
        /\ StoredUserIds # UserIds
        /\ users' = [users EXCEPT ![FreshUserId] =
             [roles |-> <<"staff">>, approved |-> FALSE,
              email |-> normalizeEmail(email), username |-> username,
              name |-> "n1", password_hash |-> bcryptHash(password)]]
        /\ Answer(r, [Resp(req, 0, 201, NoStr) EXCEPT
                        !.rows = {[id |-> FreshUserId, roles |-> <<"staff">>,
                                   approved |-> FALSE]}])

\* SELECT * FROM users WHERE email = $1 OR username = $1
LoginMatches(emailOrUsername) == UsersWith(emailOrUsername, emailOrUsername)

\* !user.approved
LoginBlocked(user) == ~user.approved

\* POST /api/auth/login: the users query, the comparison of the password
\* with the hash of the first row read, after which the token is signed,
\* and the update of updated_at; the answer carries the token
Login(r, emailOrUsername, password) ==
  LET req == [route |-> "login", password |-> password,
              emailOrUsername |-> emailOrUsername] IN
  /\ UNCHANGED <<users, projects, invoices, timeEntries, today, westOfUTC, issued>>
  /\ \/ /\ Free(r)
        /\ UNCHANGED tokens
        /\ IF LoginMatches(emailOrUsername) = {}
           THEN Answer(r, Resp(req, 0, 401, "invalid_credentials"))
           ELSE \E u \in LoginMatches(emailOrUsername) :
                  IF LoginBlocked(users[u])
                  THEN Answer(r, Resp(req, 0, 403, "pending_approval"))
                  ELSE Await(r, "compare", req, NoUser,
                             [token |-> u, password_hash |-> users[u].password_hash])
     \/ /\ At(r, "compare", req)
        /\ UNCHANGED tokens
        /\ IF ~bcryptCompare(password, inflight[r].loc.password_hash)
           THEN Answer(r, Resp(req, 0, 401, "invalid_credentials"))
           ELSE Await(r, "touch", req, NoUser, inflight[r].loc)
     \/ /\ At(r, "touch", req)
        /\ tokens' = tokens \cup {inflight[r].loc.token}
        /\ Answer(r, [Resp(req, 0, 200, NoStr) EXCEPT !.token = inflight[r].loc.token])

\* GET /api/auth/verify: answered from req.user, the row of authenticateToken
Verify(r, c) ==
  LET req == [route |-> "verify", caller |-> c] IN
  /\ UNCHANGED <<users, projects, invoices, timeEntries, today, tokens, westOfUTC, issued>>
  /\ Free(r)
  /\ IF authenticateToken(c) # 0
     THEN Answer(r, Resp(req, 0, authenticateToken(c), AuthErr(authenticateToken(c))))
     ELSE Answer(r, [Resp(req, 0, 200, NoStr) EXCEPT !.rows = {UserRow(c)}])

\* POST /api/auth/logout: the token stays valid, the client drops it
Logout(r, c) ==
  LET req == [route |-> "logout", caller |-> c] IN
  /\ UNCHANGED <<users, projects, invoices, timeEntries, today, tokens, westOfUTC, issued>>
  /\ Free(r)
  /\ IF authenticateToken(c) # 0
     THEN Answer(r, Resp(req, 0, authenticateToken(c), AuthErr(authenticateToken(c))))
     ELSE Answer(r, Resp(req, 0, 200, NoStr))

\* PUT /api/auth/change-password: the users query of authenticateToken, the
\* password_hash query, the comparison of the current password with the
\* hash read, and the update
ChangePassword(r, c, currentPassword, newPassword) ==
  LET req == [route |-> "change_password", caller |-> c,
              newPassword |-> newPassword, currentPassword |-> currentPassword] IN
  /\ UNCHANGED <<projects, invoices, timeEntries, today, tokens, westOfUTC, issued>>
  /\ \/ /\ Free(r)
        /\ UNCHANGED users
        /\ IF authenticateToken(c) # 0
           THEN Answer(r, Resp(req, 0, authenticateToken(c), AuthErr(authenticateToken(c))))
           ELSE Await(r, "select", req, UserRow(c), <<>>)
     \/ /\ At(r, "select", req)
        /\ UNCHANGED users
        /\ IF users[c] = NoUser
           THEN Answer(r, Resp(req, 0, 404, "not_found"))
           ELSE Await(r, "compare", req, inflight[r].user,
                      [password_hash |-> users[c].password_hash])
     \/ /\ At(r, "compare", req)
        /\ UNCHANGED users
        /\ IF ~bcryptCompare(currentPassword, inflight[r].loc.password_hash)
           THEN Answer(r, Resp(req, 0, 400, "wrong_password"))
           ELSE Await(r, "update", req, inflight[r].user, <<>>)
     \/ /\ At(r, "update", req)
        /\ users' = [users EXCEPT ![c].password_hash = bcryptHash(newPassword)]
        /\ Answer(r, Resp(req, 0, 200, NoStr))

(***************************************************************************)
(* routes/timeEntries.  A row is [id, user_id, clock_in, clock_out, date]; *)
(* clock_out = NoNum is NULL.  Timestamps are taken at day resolution.     *)
(***************************************************************************)
UsedEntryIds == {timeEntries[k].id : k \in 1..Len(timeEntries)}

\* the id of the next row inserted (DEFAULT gen_random_uuid()): an id no
\* row, stored or deleted, has had
FreshEntryId == issued.entries + 1

\* the open-entry query looking for closed entries instead
OpenEntriesInverted(tbl, u) ==
  {k \in 1..Len(tbl) : tbl[k].user_id = u /\ tbl[k].clock_out # NoNum}

\* SELECT ... FROM time_entries WHERE user_id = $1 AND clock_out IS NULL
OpenEntries(tbl, u) ==
  {k \in 1..Len(tbl) : tbl[k].user_id = u /\ tbl[k].clock_out = NoNum}

\* ORDER BY created_at DESC LIMIT 1
LatestOpen(tbl, u) == CHOOSE k \in OpenEntries(tbl, u) : \A j \in OpenEntries(tbl, u) : j <= k

\* INSERT INTO time_entries (user_id, clock_in, date) VALUES ($1, now, today)
InsertEntry(tbl, u, now) ==
  Append(tbl, [id |-> FreshEntryId, date |-> now, user_id |-> u,
               clock_out |-> NoNum, clock_in |-> now])

RECURSIVE RemoveEntry(_, _)
\* DELETE FROM time_entries WHERE id = $1
RemoveEntry(tbl, id) ==
  IF tbl = <<>> THEN <<>>
  ELSE IF Head(tbl).id = id THEN RemoveEntry(Tail(tbl), id)
  ELSE <<Head(tbl)>> \o RemoveEntry(Tail(tbl), id)

\* POST /api/time-entries/clock-in: the users query, the open-entry query,
\* after whose answer now is taken, and the insert
ClockIn(r, c) ==
  LET req == [route |-> "clock_in", caller |-> c] IN
  /\ UNCHANGED <<users, projects, invoices, today, tokens, westOfUTC>>
  /\ \/ /\ Free(r)
        /\ UNCHANGED <<timeEntries, issued>>
        /\ IF authenticateToken(c) # 0
           THEN Answer(r, Resp(req, 0, authenticateToken(c), AuthErr(authenticateToken(c))))
           ELSE Await(r, "select", req, UserRow(c), <<>>)
     \/ /\ At(r, "select", req)
        /\ UNCHANGED <<timeEntries, issued>>
        /\ IF OpenEntries(timeEntries, inflight[r].user.id) # {}
           THEN Answer(r, Resp(req, 0, 400, "already_clocked_in"))
           ELSE Await(r, "insert", req, inflight[r].user, [now |-> today])
     \/ /\ At(r, "insert", req)
        /\ FreshEntryId \in EntryIds
        /\ issued' = [issued EXCEPT !.entries = FreshEntryId]
        /\ timeEntries' = InsertEntry(timeEntries, inflight[r].user.id, inflight[r].loc.now)
        /\ Answer(r, Resp(req, FreshEntryId, 201, NoStr))

\* UPDATE time_entries SET clock_out = $1 WHERE id = $2
SetClockOut(tbl, id, now) ==
  [k \in 1..Len(tbl) |-> IF tbl[k].id = id THEN [tbl[k] EXCEPT !.clock_out = now] ELSE tbl[k]]

\* PUT /api/time-entries/clock-out: the users query, the query of the
\* latest open entry, after whose answer now is taken, and the update by
\* the id of that entry.  When the entry is gone by then, result.rows[0] is
\* undefined and reading its clock_in throws: the catch branch answers 500.
ClockOut(r, c) ==
  LET req == [route |-> "clock_out", caller |-> c] IN
  /\ UNCHANGED <<users, projects, invoices, today, tokens, westOfUTC, issued>>
  /\ \/ /\ Free(r)
        /\ UNCHANGED timeEntries
        /\ IF authenticateToken(c) # 0
           THEN Answer(r, Resp(req, 0, authenticateToken(c), AuthErr(authenticateToken(c))))
           ELSE Await(r, "select", req, UserRow(c), <<>>)
     \/ /\ At(r, "select", req)
        /\ UNCHANGED timeEntries
        /\ IF OpenEntries(timeEntries, inflight[r].user.id) = {}
           THEN Answer(r, Resp(req, 0, 400, "not_clocked_in"))
           ELSE Await(r, "update", req, inflight[r].user,
                      [id |-> timeEntries[LatestOpen(timeEntries, inflight[r].user.id)].id,
                       now |-> today])
     \/ /\ At(r, "update", req)
        /\ timeEntries' = SetClockOut(timeEntries, inflight[r].loc.id, inflight[r].loc.now)
        /\ IF inflight[r].loc.id \in UsedEntryIds
           THEN Answer(r, Resp(req, inflight[r].loc.id, 200, NoStr))
           ELSE Answer(r, Resp(req, inflight[r].loc.id, 500, "server_error"))

\* WHERE user_id = $1: the positions of c's entries
EntriesOf(tbl, c) == {k \in 1..Len(tbl) : tbl[k].user_id = c}

\* ORDER BY created_at DESC LIMIT limit OFFSET offset over the positions sel
PageOf(sel, limit, offset) ==
  {k \in sel : /\ Cardinality({j \in sel : j > k}) >= offset
               /\ Cardinality({j \in sel : j > k}) < offset + limit}

\* the WHERE clause of the list and count queries; date NoNum is an absent
\* key (no request of the model carries a month key)
TimeListWhere(c, date) ==
  {k \in EntriesOf(timeEntries, c) : date = NoNum \/ timeEntries[k].date = date}

\* GET /api/time-entries: the users query, the list query, the count query
TimeList(r, c, date, limit, offset) ==
  LET req == [route |-> "time_list", date |-> date, caller |-> c, limit |-> limit,
              offset |-> offset] IN
  /\ UNCHANGED <<users, projects, invoices, timeEntries, today, tokens, westOfUTC, issued>>
  /\ \/ /\ Free(r)
        /\ IF authenticateToken(c) # 0
           THEN Answer(r, Resp(req, 0, authenticateToken(c), AuthErr(authenticateToken(c))))
           ELSE Await(r, "list", req, UserRow(c), <<>>)
     \/ /\ At(r, "list", req)
        /\ Await(r, "count", req, inflight[r].user,
                 [rows |-> {timeEntries[k] :
                              k \in PageOf(TimeListWhere(inflight[r].user.id, date),
                                           limit, offset)}])
     \/ /\ At(r, "count", req)
        /\ Answer(r, [Resp(req, 0, 200, NoStr) EXCEPT
                        !.rows = inflight[r].loc.rows,
                        !.total = Cardinality(TimeListWhere(inflight[r].user.id, date))])

\* GET /api/time-entries/current
TimeCurrent(r, c) ==
  LET req == [route |-> "time_current", caller |-> c] IN
  /\ UNCHANGED <<users, projects, invoices, timeEntries, today, tokens, westOfUTC, issued>>
  /\ \/ /\ Free(r)
        /\ IF authenticateToken(c) # 0
           THEN Answer(r, Resp(req, 0, authenticateToken(c), AuthErr(authenticateToken(c))))
           ELSE Await(r, "select", req, UserRow(c), <<>>)
     \/ /\ At(r, "select", req)
        /\ IF OpenEntries(timeEntries, inflight[r].user.id) = {}
           THEN Answer(r, Resp(req, 0, 200, NoStr))
           ELSE Answer(r, [Resp(req, 0, 200, NoStr) EXCEPT
                     !.rows = {timeEntries[LatestOpen(timeEntries, inflight[r].user.id)]}])

\* the time worked over the entries at the positions S: clock_out - clock_in
\* for a closed entry, now - clock_in for an open one (nothing when now is
\* NoNum)
RECURSIVE SumWorked(_, _)
SumWorked(S, now) ==
  IF S = {} THEN 0
  ELSE LET k == CHOOSE j \in S : TRUE IN
       (IF timeEntries[k].clock_out # NoNum
        THEN timeEntries[k].clock_out - timeEntries[k].clock_in
        ELSE IF now # NoNum THEN now - timeEntries[k].clock_in ELSE 0)
         + SumWorked(S \ {k}, now)

\* the summary GET /api/time-entries/today builds from the rows at sel
TodaySummary(sel) ==
  LET first == CHOOSE k \in sel : \A j \in sel : k <= j
      latest == CHOOSE k \in sel : \A j \in sel : j <= k
      open == {k \in sel : timeEntries[k].clock_out = NoNum} IN
  IF sel = {}
  THEN [status |-> "Not Started", entriesCount |-> 0, isCurrentlyClockedIn |-> FALSE,
        clockInTime |-> NoNum, clockOutTime |-> NoNum, totalWorked |-> 0]
  ELSE [status |-> IF open # {} THEN "In Progress" ELSE "Completed",
        entriesCount |-> Cardinality(sel),
        isCurrentlyClockedIn |-> open # {},
        clockInTime |-> timeEntries[first].clock_in,
        clockOutTime |-> IF open # {} THEN NoNum ELSE timeEntries[latest].clock_out,
        totalWorked |-> SumWorked(sel, today)]

\* GET /api/time-entries/today: the users query, after whose answer the
\* date of the request is taken, and the query of that date's entries
TimeToday(r, c) ==
  LET req == [route |-> "time_today", caller |-> c] IN
  /\ UNCHANGED <<users, projects, invoices, timeEntries, today, tokens, westOfUTC, issued>>
  /\ \/ /\ Free(r)
        /\ IF authenticateToken(c) # 0
           THEN Answer(r, Resp(req, 0, authenticateToken(c), AuthErr(authenticateToken(c))))
           ELSE Await(r, "select", req, UserRow(c), [today |-> today])
     \/ /\ At(r, "select", req)
        /\ Answer(r, [Resp(req, 0, 200, NoStr) EXCEPT
                     !.rows =
                       {TodaySummary({k \in EntriesOf(timeEntries, inflight[r].user.id) :
                                        timeEntries[k].date = inflight[r].loc.today})}])

\* the days from d - INTERVAL '1 year', the same day of the year before (28
\* February for 29 February), to d: 366 when a 29 February lies between
DaysOfYearBefore(d) ==
  IF DayOfYearFrom(BaseYear, d) < 59
  THEN DaysInYear(YearOf(d) - 1)
  ELSE DaysInYear(YearOf(d))

\* the days the INTERVAL of a period spans back from day d
PeriodDays(period, d) ==
  IF period = "week" THEN 7 ELSE IF period = "year" THEN DaysOfYearBefore(d) ELSE 30

\* GET /api/time-entries/stats: the one row of the aggregate query
TimeStats(r, c, period) ==
  LET req == [route |-> "time_stats", caller |-> c, period |-> period]
      sel == {k \in EntriesOf(timeEntries, inflight[r].user.id) :
                timeEntries[k].date >= today - PeriodDays(period, today)} IN
  /\ UNCHANGED <<users, projects, invoices, timeEntries, today, tokens, westOfUTC, issued>>
  /\ \/ /\ Free(r)
        /\ IF authenticateToken(c) # 0
           THEN Answer(r, Resp(req, 0, authenticateToken(c), AuthErr(authenticateToken(c))))
           ELSE Await(r, "stats", req, UserRow(c), <<>>)
     \/ /\ At(r, "stats", req)
        /\ Answer(r, [Resp(req, 0, 200, NoStr) EXCEPT
                     !.rows = {[total_entries |-> Cardinality(sel),
                                completed_entries |-> Cardinality({k \in sel :
                                   timeEntries[k].clock_out # NoNum}),
                                active_entries |-> Cardinality({k \in sel :
                                   timeEntries[k].clock_out = NoNum}),
                                days_worked |-> Cardinality({timeEntries[k].date : k \in sel}),
                                total_hours |-> SumWorked(sel, NoNum)]}])

\* the ownership test of the delete query left out
EntryOfAnyone(entry, id, c) == entry.id = id

\* WHERE id = $1 AND user_id = $2
EntryOfCaller(entry, id, c) == entry.id = id /\ entry.user_id = c

\* the active test reading clock_in for clock_out
IsActiveEntryByClockIn(entry) == entry.clock_in = NoNum

\* !entry.clock_out
IsActiveEntry(entry) == entry.clock_out = NoNum

\* DELETE /api/time-entries/:id: the users query, the query of the caller's
\* entry with that id, and the delete by id
TimeDelete(r, c, id) ==
  LET req == [route |-> "time_delete", id |-> id, caller |-> c] IN
  /\ UNCHANGED <<users, projects, invoices, today, tokens, westOfUTC, issued>>
  /\ \/ /\ Free(r)
        /\ UNCHANGED timeEntries
        /\ IF authenticateToken(c) # 0
           THEN Answer(r, Resp(req, id, authenticateToken(c), AuthErr(authenticateToken(c))))
           ELSE Await(r, "select", req, UserRow(c), <<>>)
     \/ /\ At(r, "select", req)
        /\ UNCHANGED timeEntries
        /\ IF ~\E k \in 1..Len(timeEntries) :
                  EntryOfCaller(timeEntries[k], id, inflight[r].user.id)
           THEN Answer(r, Resp(req, id, 404, "not_found"))
           ELSE IF \E k \in 1..Len(timeEntries) :
                     /\ EntryOfCaller(timeEntries[k], id, inflight[r].user.id)
                     /\ IsActiveEntry(timeEntries[k])
           THEN Answer(r, Resp(req, id, 400, "active_entry"))
           ELSE Await(r, "delete", req, inflight[r].user, <<>>)
     \/ /\ At(r, "delete", req)
        /\ timeEntries' = RemoveEntry(timeEntries, id)
        /\ Answer(r, Resp(req, id, 200, NoStr))

InitRoles(u) ==
  IF u = "u1" THEN <<"staff", "admin">>
  ELSE IF u = "u2" THEN <<"staff", "madmin">>
  ELSE IF u \in {"u3", "u5"} THEN <<"staff", "user">>
  ELSE <<"staff">>

InitEmail(u) ==
  IF u = "u1" THEN "e1" ELSE IF u = "u2" THEN "e2" ELSE IF u = "u3" THEN "e3"
  ELSE IF u = "u4" THEN "e4" ELSE IF u = "u5" THEN "e5" ELSE "e6"

InitUsername(u) ==
  IF u = "u1" THEN "m1" ELSE IF u = "u2" THEN "m2" ELSE IF u = "u3" THEN "m3"
  ELSE IF u = "u4" THEN "m4" ELSE IF u = "u5" THEN "m5" ELSE "m6"

(***************************************************************************)
(* Initial state: six registered users (the admin u1, the madmin u2, the   *)
(* users u3 and u5, the unapproved self-registered u4 and the approved     *)
(* staff-only u6), the id u7 not yet in use, the other tables empty, no    *)
(* token issued yet, no id generated, no request in flight.                *)
(***************************************************************************)
InitTables ==
  /\ users = [u \in UserIds |->
       IF u = "u7" THEN NoUser
       ELSE [roles |-> InitRoles(u), approved |-> u # "u4",
             email |-> InitEmail(u), username |-> InitUsername(u),
             name |-> "n1", password_hash |-> bcryptHash("pw1")]]
  /\ projects = [p \in ProjectIds |-> NoProject]
  /\ invoices = [i \in InvoiceIds |-> NoInvoice]
  /\ timeEntries = <<>>
  /\ today = 0
  /\ last = NoLast
  /\ inflight = [r \in Reqs |-> Idle]
  /\ tokens = {}
  /\ issued = [projects |-> 0, invoices |-> 0, entries |-> 0]

\* the server's time zone is any: at UTC, ahead of it or behind it
Init == InitTables /\ westOfUTC \in BOOLEAN

\* the slot of the specifications that run the requests one at a time
OneAtATime == {"r1"}

(***************************************************************************)
(* Invoice specifications.  The callers are the admin u1 and u3, who holds *)
(* no billing role; the client of every invoice is u3.  The requests run   *)
(* one at a time: the next one arrives when the one before is answered.    *)
(***************************************************************************)
InvCallers == {"u1", "u3"}

\* update bodies that carry a status key or nothing
InvUpdatesStatus ==
  {[NoInvUpdate EXCEPT !.status = s] : s \in InvoiceStatuses \cup {NoStr}}

\* update bodies that carry one key, status, due_date or amount, or none
InvUpdatesAll ==
  InvUpdatesStatus
    \cup {[NoInvUpdate EXCEPT !.due_date = d] : d \in Days}
    \cup {[NoInvUpdate EXCEPT !.amount = a] : a \in Amounts}

\* These specifications follow one invoice through its life, from its
\* creation to its deletion and the requests that name it afterwards.
DoInvCreate ==
  \E r \in OneAtATime, c \in InvCallers, a \in Amounts, d \in Days :
    /\ Free(r) => issued.invoices = 0
    /\ InvCreate(r, c, "u3", 0, a, 0, d)
DoInvPayment == \E r \in OneAtATime, c \in InvCallers, i \in InvoiceIds,
                   a \in Amounts, m \in BOOLEAN :
                  InvPayment(r, c, i, a, m)
DoInvList == \E r \in OneAtATime, c \in InvCallers, s \in {NoStr, "pending"} :
               InvList(r, c, s)
DoInvGet == \E r \in OneAtATime, c \in InvCallers, i \in InvoiceIds : InvGet(r, c, i)
DoInvDelete == \E r \in OneAtATime, c \in InvCallers, i \in InvoiceIds : InvDelete(r, c, i)
DoInvUpdateStatus == \E r \in OneAtATime, c \in InvCallers, i \in InvoiceIds,
                        u \in InvUpdatesStatus :
                       InvUpdate(r, c, i, u)
DoInvUpdate == \E r \in OneAtATime, c \in InvCallers, i \in InvoiceIds,
                  u \in InvUpdatesAll :
                 InvUpdate(r, c, i, u)

\* Payment applications on invoices whose amount is never edited.
NextPay ==
  \/ Tick
  \/ DoInvCreate
  \/ DoInvPayment
  \/ DoInvList
  \/ DoInvGet
  \/ DoInvDelete
  \/ DoInvUpdateStatus

SpecPay == Init /\ [][NextPay]_vars

\* Every invoice operation, updates of the amount included.
NextInv ==
  \/ Tick
  \/ DoInvCreate
  \/ DoInvPayment
  \/ DoInvList
  \/ DoInvGet
  \/ DoInvDelete
  \/ DoInvUpdate

SpecInv == Init /\ [][NextInv]_vars

(***************************************************************************)
(* Properties of the payment handler.  A step answers a request of route   *)
(* op exactly when last'.op = op; with the requests run one at a time the  *)
(* tables it starts from are the ones the request has read.                *)
(***************************************************************************)
Stored(i) == invoices[i] # NoInvoice

PaidWithinAmount ==
  \A i \in InvoiceIds : Stored(i) => invoices[i].paid_amount <= invoices[i].amount

ExceedingPaymentRejected ==
  (/\ last'.op = "inv_payment"
   /\ ~last'.req.markAsPaid
   /\ Stored(last'.req.id)
   /\ invoices[last'.req.id].paid_amount + last'.req.amount > invoices[last'.req.id].amount)
  => (invoices' = invoices /\ last'.code >= 400)

\* C1: while the amount of an invoice is not edited, paid_amount <= amount
\* holds after every sequence of payment applications, each run to its
\* answer before the next, and a partial payment p with
\* paid_amount + p > amount is answered with an error and leaves the
\* invoice table as it was.
C1_PaidBounded == []PaidWithinAmount /\ [][ExceedingPaymentRejected]_vars

\* A partial payment was refused for exceeding the balance of an invoice
\* that already carries an earlier payment.
C1_Witness ==
  /\ last.op = "inv_payment"
  /\ last.err = "exceeds"
  /\ ~last.mark
  /\ last.id \in InvoiceIds
  /\ Stored(last.id)
  /\ invoices[last.id].paid_amount > 0
  /\ invoices[last.id].paid_amount < invoices[last.id].amount

\* The step answers a payment request that reaches the handler body: gate
\* passed, body valid, invoice stored and not cancelled.
PaymentHandled ==
  /\ last'.op = "inv_payment"
  /\ BillingGate(last'.req.caller) = 0
  /\ ValidAmount(last'.req.amount)
  /\ Stored(last'.req.id)
  /\ invoices[last'.req.id].status # "cancelled"

MarkAsPaidSettles ==
  (PaymentHandled /\ last'.req.markAsPaid)
  => /\ last'.code = 200
     /\ invoices'[last'.req.id].amount = invoices[last'.req.id].amount
     /\ invoices'[last'.req.id].paid_amount = invoices[last'.req.id].amount
     /\ invoices'[last'.req.id].status = "paid"

\* C7: a payment request with markAsPaid on a stored, non-cancelled invoice
\* (sent by a caller with billing access, with an amount that passes the
\* body validation) leaves paid_amount = amount and status = paid, whatever
\* the earlier paid_amount and whatever amount the request carries.
C7_MarkAsPaid == [][MarkAsPaidSettles]_vars

\* A mark-as-paid request was accepted.
C7_Witness ==
  /\ last.op = "inv_payment"
  /\ last.mark
  /\ last.code = 200
  /\ invoices[last.id].status = "paid"
  /\ invoices[last.id].paid_amount = invoices[last.id].amount
  /\ \A a \in Amounts : a <= invoices[last.id].amount

PartialPaymentApplied ==
  (PaymentHandled /\ ~last'.req.markAsPaid)
  => LET i == last'.req.id
         p == last'.req.amount
         q == invoices[i].paid_amount
         a == invoices[i].amount
     IN  IF q + p <= a
         THEN /\ last'.code = 200
              /\ invoices'[i].paid_amount = q + p
              /\ invoices'[i].status = (IF q + p = a THEN "paid" ELSE "pending")
         ELSE /\ last'.code = 400
              /\ last'.err = "exceeds"
              /\ last'.remaining = a - q

\* C8: an accepted partial payment p on an invoice with paid_amount q and
\* amount a (q + p <= a) stores paid_amount = q + p, with status paid when
\* q + p = a and pending otherwise; a refused one (q + p > a) reports the
\* remaining balance a - q.
C8_PartialPayment == [][PartialPaymentApplied]_vars

CancelledRejectsPayment ==
  (/\ last'.op = "inv_payment"
   /\ Stored(last'.req.id)
   /\ invoices[last'.req.id].status = "cancelled")
  => (invoices' = invoices /\ last'.code >= 400)

\* C9: a payment request, partial or mark-as-paid, on an invoice whose
\* status is cancelled is answered with an error and leaves the invoice
\* (paid_amount and status included) as it was.
C9_CancelledRejects == [][CancelledRejectsPayment]_vars

\* A payment was refused because the invoice is cancelled.
C9_Witness ==
  /\ last.op = "inv_payment"
  /\ last.err = "cancelled"
  /\ last.code = 400
  /\ invoices[last.id].status = "cancelled"

OverduePaymentKeepsOverdue ==
  (/\ last'.op = "inv_payment"
   /\ last'.code = 200
   /\ ~last'.req.markAsPaid
   /\ Stored(last'.req.id)
   /\ invoices[last'.req.id].status = "overdue"
   /\ invoices[last'.req.id].due_date < today
   /\ invoices'[last'.req.id].paid_amount < invoices'[last'.req.id].amount)
  => invoices'[last'.req.id].status = "overdue"

\* C30: an accepted partial payment that does not reach the amount leaves
\* an invoice that is flagged overdue, and whose due date is still in the
\* past, with status overdue: payment never moves it back to pending.
C30_OverdueNotBackToPending == [][OverduePaymentKeepsOverdue]_vars

(***************************************************************************)
(* Properties of the invoice table under every invoice operation.          *)
(***************************************************************************)
\* C5: in every reachable state an invoice has status paid if and only if
\* its paid_amount equals its amount (create, update, payment, list).
C5_PaidIffSettled ==
  \A i \in InvoiceIds :
    Stored(i) => (invoices[i].status = "paid" <=> invoices[i].paid_amount = invoices[i].amount)

\* C6: paid_amount never exceeds amount, also when updates of the amount
\* are interleaved with payment applications.
C6_PaidBoundedUnderEdits ==
  \A i \in InvoiceIds : Stored(i) => ~(invoices[i].paid_amount > invoices[i].amount)

ListFlagsBeforeReturn ==
  (last'.op = "inv_list" /\ last'.code = 200)
  => /\ \A row \in last'.rows : ~(row.status = "pending" /\ row.due_date < today)
     /\ \A i \in InvoiceIds :
          invoices'[i] # NoInvoice =>
            ~(invoices'[i].status = "pending" /\ invoices'[i].due_date < today)

\* C10: a listing flags every pending invoice whose due date has passed
\* before the rows are returned: no returned row shows such an invoice as
\* pending, and after the listing none is stored as pending.
C10_ListFlagsOverdue == [][ListFlagsBeforeReturn]_vars

(***************************************************************************)
(* Billing-gate specification.  Every invoice route is called by the admin *)
(* u1, the madmin u2, the user u3 and the staff-only u6; one invoice is    *)
(* followed, from its creation to its deletion and afterwards.             *)
(***************************************************************************)
GateCallers == {"u1", "u2", "u3", "u6"}

\* the requests of the callers with billing access run one at a time; a
\* request of a caller without it arrives at any moment, also while another
\* request waits for a query
GateSlots(c) == IF c \in {"u3", "u6"} THEN Reqs ELSE OneAtATime

DoGateCreate == /\ issued.invoices = 0
                /\ \E c \in GateCallers, d \in Days :
                     \E r \in GateSlots(c) : InvCreate(r, c, "u3", 0, 1, 0, d)
DoGateList == \E c \in GateCallers : \E r \in GateSlots(c) : InvList(r, c, NoStr)
DoGateGet == \E c \in GateCallers, i \in InvoiceIds :
               \E r \in GateSlots(c) : InvGet(r, c, i)
DoGateUpdate == \E c \in GateCallers, i \in InvoiceIds :
                  \E r \in GateSlots(c) :
                    InvUpdate(r, c, i, [NoInvUpdate EXCEPT !.status = "cancelled"])
DoGatePayment == \E c \in GateCallers, i \in InvoiceIds, m \in BOOLEAN :
                   \E r \in GateSlots(c) : InvPayment(r, c, i, 1, m)
DoGateDelete == \E c \in GateCallers, i \in InvoiceIds :
                  \E r \in GateSlots(c) : InvDelete(r, c, i)
DoGateStats == \E c \in GateCallers : \E r \in GateSlots(c) : InvStats(r, c)
DoGateExport == \E c \in GateCallers : \E r \in GateSlots(c) : InvExport(r, c, NoStr)

NextGate ==
  \/ Tick
  \/ DoGateCreate
  \/ DoGateList
  \/ DoGateGet
  \/ DoGateUpdate
  \/ DoGatePayment
  \/ DoGateDelete
  \/ DoGateStats
  \/ DoGateExport

SpecGate == Init /\ [][NextGate]_vars

InvRoutes ==
  {"inv_list", "inv_get", "inv_create", "inv_update", "inv_payment", "inv_delete",
   "inv_stats", "inv_export"}

\* the caller holds neither madmin nor admin
NoBillingRole(c) == RoleSet(users[c].roles) \cap {"admin", "madmin"} = {}

\* denied at the gate: 403 in the step the request arrives in, before any
\* query on invoices, nothing read into the answer, nothing written
GateDenied ==
  /\ last'.code = 403
  /\ last'.rows = {}
  /\ last'.remaining = NoNum
  /\ inflight' = inflight
  /\ invoices' = invoices

NoBillingRoleDenied ==
  (last'.op \in InvRoutes /\ NoBillingRole(last'.req.caller)) => GateDenied

InvDeleteOnlyByAdmin ==
  (last'.op = "inv_delete" /\ "admin" \notin RoleSet(users[last'.req.caller].roles))
  => GateDenied

\* a step that changes the invoice table belongs to a request whose caller
\* holds madmin or admin
WritersHoldBillingRole ==
  invoices' # invoices
  => \E r \in Reqs : /\ inflight[r].pc # "idle"
                     /\ inflight'[r] # inflight[r]
                     /\ ~NoBillingRole(inflight[r].req.caller)

\* C17: every invoice route called by a caller holding neither madmin nor
\* admin is answered 403 before an invoice is read or written, so no
\* invoice changes, the overdue flagging of the list included; a deletion
\* by a caller without admin is answered 403 and removes nothing.
C17_BillingGate ==
  [][NoBillingRoleDenied /\ InvDeleteOnlyByAdmin /\ WritersHoldBillingRole]_vars

\* a denied list request while a pending invoice is past its due date
C17_Witness ==
  /\ last.op = "inv_list"
  /\ last.code = 403
  /\ last.err = "no_billing_role"
  /\ \E i \in StoredInvoiceIds : IsOverdueCandidate(invoices[i])

(***************************************************************************)
(* Client specification: invoices are created for and reassigned to the    *)
(* approved u3, the unapproved u4 and the unused id u7, while the admin    *)
(* approves u4 and suspends or restores u3.  Callers: the admin u1 and the *)
(* madmin u2.  The requests run one at a time.                             *)
(***************************************************************************)
CliCallers == {"u1", "u2"}
CliClients == {"u3", "u4", "u7"}

\* bodies that carry a client_id, or a description only
CliUpdate(k) == [NoInvUpdate EXCEPT !.client_id = k, !.description = (k = NoId)]

\* the body of the admin's update of the approved flag
CliApproved(a) == [roles |-> <<"staff">>, approved |-> a, email |-> "e3",
                   username |-> "m3", name |-> "n1", keys |-> {"approved"}]

DoCliCreate ==
  \E r \in OneAtATime, c \in CliCallers, k \in CliClients :
    /\ Free(r) => FreshInvoiceId \in InvoiceIds
    /\ InvCreate(r, c, k, 0, 1, 0, 0)
DoCliUpdate == \E r \in OneAtATime, c \in CliCallers, i \in InvoiceIds,
                  k \in CliClients \cup {NoId} :
                 InvUpdate(r, c, i, CliUpdate(k))
DoCliDelete == \E r \in OneAtATime, i \in InvoiceIds : InvDelete(r, "u1", i)
DoCliApprove == \E r \in OneAtATime : UserApprove(r, "u1", "u4")
DoCliSuspend == \E r \in OneAtATime, a \in BOOLEAN :
                  UserUpdate(r, "u1", "u3", CliApproved(a))

NextClient ==
  \/ DoCliCreate
  \/ DoCliUpdate
  \/ DoCliDelete
  \/ DoCliApprove
  \/ DoCliSuspend

SpecClient == Init /\ [][NextClient]_vars

\* the step gives invoice i a client: it creates i or changes its client_id
ClientAssigned(i) ==
  /\ invoices'[i] # NoInvoice
  /\ invoices[i] = NoInvoice \/ invoices'[i].client_id # invoices[i].client_id

ApprovedNow(k) == users[k] # NoUser /\ users[k].approved

AssignedClientApproved ==
  \A i \in InvoiceIds : ClientAssigned(i) => ApprovedNow(invoices'[i].client_id)

InvRejected == last'.code >= 400 /\ invoices' = invoices

BadClientRejected ==
  /\ (last'.op = "inv_create" /\ ~ApprovedNow(last'.req.client_id)) => InvRejected
  /\ (/\ last'.op = "inv_update"
      /\ last'.req.upd.client_id # NoId
      /\ ~ApprovedNow(last'.req.upd.client_id)) => InvRejected

\* C23: a step that creates an invoice or changes its client_id gives it a
\* client that is stored and approved when the step is taken; a creation or
\* an update whose client_id names no user or an unapproved one is answered
\* with an error and leaves the invoice table as it was.
C23_ClientApproved == [][AssignedClientApproved /\ BadClientRejected]_vars

\* an update naming u3 again as the client of its own invoice was refused
\* after u3 had been suspended
C23_Witness ==
  /\ last.op = "inv_update"
  /\ last.err = "invalid_client"
  /\ last.id \in StoredInvoiceIds
  /\ invoices[last.id].client_id = "u3"
  /\ ~users["u3"].approved

(***************************************************************************)
(* Numbering specification: the admin u1 creates, re-dates and deletes     *)
(* invoices of the client u3, MaxInvoices of them in all, dated on the     *)
(* first day of one of two years, one request at a time.                   *)
(***************************************************************************)
NumDates == {0, DaysInYear(BaseYear)}

\* bodies that carry a date or a due_date
NumUpdates ==
  {[NoInvUpdate EXCEPT !.date = d] : d \in NumDates}
  \cup {[NoInvUpdate EXCEPT !.due_date = d] : d \in NumDates}

DoNumCreate ==
  \E r \in OneAtATime, d \in NumDates, dd \in NumDates :
    /\ Free(r) => FreshInvoiceId \in InvoiceIds
    /\ InvCreate(r, "u1", "u3", 0, 1, d, dd)
DoNumUpdate == \E r \in OneAtATime, i \in InvoiceIds, upd \in NumUpdates :
                 InvUpdate(r, "u1", i, upd)
DoNumDelete == \E r \in OneAtATime, i \in InvoiceIds : InvDelete(r, "u1", i)

NextNumbers ==
  \/ DoNumCreate
  \/ DoNumUpdate
  \/ DoNumDelete

SpecNumbers == Init /\ [][NextNumbers]_vars

DueNotBeforeDate ==
  \A i \in StoredInvoiceIds : invoices[i].due_date >= invoices[i].date

LateCreateRejected ==
  (last'.op = "inv_create" /\ last'.req.due_date < last'.req.date) => InvRejected

\* C24: every stored invoice has due_date >= date after any sequence of
\* invoice creations and updates, and a creation with due_date before date
\* is answered with an error and stores no invoice.
C24_DueNotBeforeDate == []DueNotBeforeDate /\ [][LateCreateRejected]_vars

\* the sequence part of an invoice number: the digits after the year
SequencePart(number) == number % Pow10(PadWidth)

NumbersDistinct ==
  \A i, j \in StoredInvoiceIds : i # j => invoices[i].number # invoices[j].number

\* the step stores a new invoice under the id i
Created(i) == invoices[i] = NoInvoice /\ invoices'[i] # NoInvoice

NewNumberGreater ==
  \A i \in InvoiceIds :
    Created(i)
    => \A j \in StoredInvoiceIds :
         YearOf(invoices[j].date) = YearOf(invoices'[i].date)
         => SequencePart(invoices'[i].number) > SequencePart(invoices[j].number)

\* C27: with invoice creations executed one at a time, a new invoice dated
\* in year Y gets a sequence part greater than that of every stored invoice
\* of year Y, and no two stored invoices carry the same number, also after
\* invoices have been deleted or re-dated.
C27_NumbersMonotone == []NumbersDistinct /\ [][NewNumberGreater]_vars

(***************************************************************************)
(* Concurrent creation: the requests r1 and r2 of the admin u1 create      *)
(* invoices side by side, dated on the first two days of a year or on the  *)
(* first day of the next.                                                  *)
(***************************************************************************)
ConcDates == {0, 1, DaysInYear(BaseYear)}

\* the creations in flight
Creating == {r \in Reqs : inflight[r].req.route = "inv_create"}

DoConcCreate ==
  \E r \in Reqs, d \in ConcDates :
    /\ Free(r) => issued.invoices + Cardinality(Creating) < MaxInvoices
    /\ InvCreate(r, "u1", "u3", 0, 1, d, d)

NextNumbersConc ==
  \/ DoConcCreate

SpecNumbersConc == Init /\ [][NextNumbersConc]_vars

\* r holds the answer of its count query, taken on the rows now stored
Counted(r) ==
  /\ inflight[r].pc = "insert"
  /\ inflight[r].req.route = "inv_create"
  /\ HeldCount(r) = CountInYear(inflight[r].loc.year)

\* the number the request r is about to give
NumberHeld(r) == InvoiceNumber(inflight[r].loc.year, HeldCount(r) + 1)

\* the first insert of two requests for invoices dated in the same year
\* that both hold their count, with no insert since either count: the
\* invoice is stored under the number the other request is about to give
\* as well, and the other request goes on with the count it holds
RaceFirstInsert ==
  \A r \in Reqs, q \in Reqs :
    (/\ last'.op = "inv_create"
     /\ q # r
     /\ Counted(r) /\ Counted(q)
     /\ YearOf(inflight[r].req.date) = YearOf(inflight[q].req.date)
     /\ inflight'[r] = Idle)
    => /\ last'.code = 201
       /\ invoices'[last'.id].number = NumberHeld(q)
       /\ inflight'[q] = inflight[q]

\* the insert of a request whose number another invoice took after its
\* count: the invoice is stored all the same, under the number in use
RaceSecondInsert ==
  \A r \in Reqs, i \in InvoiceIds :
    (/\ last'.op = "inv_create"
     /\ inflight[r].pc = "insert"
     /\ inflight[r].req.route = "inv_create"
     /\ inflight'[r] = Idle
     /\ invoices[i] # NoInvoice
     /\ invoices[i].number = NumberHeld(r))
    => /\ last'.code = 201
       /\ last'.id # i
       /\ invoices'[i] = invoices[i]
       /\ invoices'[last'.id] # NoInvoice
       /\ invoices'[last'.id].number = invoices[i].number

\* C28: when two creations dated in the same year both run their count
\* query before either inserts, both invoices are stored and both carry the
\* same invoice number.
C28_CountThenInsertRace == [][RaceFirstInsert /\ RaceSecondInsert]_vars

(***************************************************************************)
(* Concurrent payments: one invoice of the client u3 at a time, created by *)
(* the request r1 and paid by the requests r1 and r2 of the admin u1.      *)
(***************************************************************************)
DoPayConcCreate == /\ StoredInvoiceIds = {}
                   /\ FreshInvoiceId \in InvoiceIds
                   /\ \E a \in Amounts : InvCreate("r1", "u1", "u3", 0, a, 0, 0)
DoPayConcPayment == \E r \in Reqs, i \in InvoiceIds, a \in Amounts, m \in BOOLEAN :
                      InvPayment(r, "u1", i, a, m)

NextPayConc ==
  \/ DoPayConcCreate
  \/ DoPayConcPayment

SpecPayConc == Init /\ [][NextPayConc]_vars

\* an accepted partial payment adds its amount to the paid_amount stored
\* when it is written
AcceptedPaymentAdded ==
  (/\ last'.op = "inv_payment"
   /\ ~last'.req.markAsPaid
   /\ last'.code = 200
   /\ Stored(last'.req.id))
  => invoices'[last'.req.id].paid_amount
       = invoices[last'.req.id].paid_amount + last'.req.amount

\* C29: when two partial payments on the same invoice each read it before
\* the other writes and both are accepted, the stored paid_amount ends as
\* the earlier paid_amount plus both amounts: each accepted payment adds its
\* amount to what is stored when it is written.
C29_NoLostPayment == [][AcceptedPaymentAdded]_vars

(***************************************************************************)
(* Project specification.  Callers: the admin u1, the user u3 and the      *)
(* unapproved u4.  One project at a time is followed, one request at a     *)
(* time.                                                                   *)
(***************************************************************************)
ProjCallers == {"u1", "u3", "u4"}

\* bodies over start_date, end_date and status, and the body with a name
ProjUpdates ==
  {[name |-> FALSE, status |-> st, start_date |-> sd, end_date |-> ed] :
     sd \in Days \cup {NoNum}, ed \in Days \cup {NoNum},
     st \in {NoStr, "ongoing", "completed"}}
  \cup {[NoProjUpdate EXCEPT !.name = TRUE]}

DoProjCreate ==
  \E r \in OneAtATime, c \in ProjCallers, sd \in Days, ed \in Days \cup {NoNum},
     st \in {NoStr, "completed"} :
    /\ Free(r) => StoredProjectIds = {} /\ FreshProjectId \in ProjectIds
    /\ ProjCreate(r, c, sd, ed, st)
DoProjGet == \E r \in OneAtATime, c \in ProjCallers, i \in ProjectIds : ProjGet(r, c, i)
DoProjUpdate == \E r \in OneAtATime, c \in ProjCallers, i \in ProjectIds, u \in ProjUpdates :
                  ProjUpdate(r, c, i, u)
DoProjComplete == \E r \in OneAtATime, c \in ProjCallers, i \in ProjectIds \cup {BadId} :
                    ProjComplete(r, c, i)
DoProjDelete == \E r \in OneAtATime, c \in ProjCallers, i \in ProjectIds :
                  ProjDelete(r, c, i)

NextProj ==
  \/ Tick
  \/ DoProjCreate
  \/ DoProjGet
  \/ DoProjUpdate
  \/ DoProjComplete
  \/ DoProjDelete

SpecProj == Init /\ [][NextProj]_vars

\* C2: every stored project with an end date has end_date >= start_date,
\* under every sequence of create, update and complete operations.
C2_EndNotBeforeStart ==
  \A i \in ProjectIds :
    (projects[i] # NoProject /\ projects[i].end_date # NoNum)
    => projects[i].end_date >= projects[i].start_date

(***************************************************************************)
(* Owner specification.  The callers who create, read, update, list and    *)
(* count are the users u3 and u5 and the staff-only u6, none of them admin *)
(* or madmin; they, the admin u1 and the madmin u2 complete; u1, u2 and u3 *)
(* ask for deletion.  One project is followed, from its creation to its    *)
(* deletion and the requests that name it afterwards, one request at a     *)
(* time.                                                                   *)
(***************************************************************************)
OwnCallers == {"u3", "u5", "u6"}
OwnCompleters == OwnCallers \cup {"u1", "u2"}
OwnDeleters == {"u1", "u2", "u3"}

\* bodies made of end_date and status
OwnUpdates ==
  {[NoProjUpdate EXCEPT !.end_date = ed, !.status = st] :
     ed \in Days \cup {NoNum}, st \in ProjectStatuses \cup {NoStr}}

ListStatuses == ProjectStatuses \cup {NoStr}
ListUserIds == {NoId, "u3", "u5"}

\* a request names an id issued so far or the one after, which names no
\* project
OwnTargets == {i \in ProjectIds : i <= issued.projects + 1}

DoOwnCreate ==
  \E r \in OneAtATime, c \in OwnCallers, sd \in Days, ed \in Days \cup {NoNum},
     st \in ProjectStatuses \cup {NoStr} :
    /\ Free(r) => issued.projects = 0
    /\ ProjCreate(r, c, sd, ed, st)
DoOwnGet == \E r \in OneAtATime, c \in OwnCallers, i \in OwnTargets : ProjGet(r, c, i)
DoOwnUpdate == \E r \in OneAtATime, c \in OwnCallers, i \in OwnTargets, u \in OwnUpdates :
                 ProjUpdate(r, c, i, u)
DoOwnComplete == \E r \in OneAtATime, c \in OwnCompleters, i \in OwnTargets \cup {BadId} :
                   ProjComplete(r, c, i)
DoOwnList == \E r \in OneAtATime, c \in OwnCallers, st \in ListStatuses, uid \in ListUserIds :
               ProjList(r, c, st, uid)
DoOwnStats == \E r \in OneAtATime, c \in OwnCallers : ProjStats(r, c)
DoOwnDelete == \E r \in OneAtATime, c \in OwnDeleters, i \in OwnTargets : ProjDelete(r, c, i)

NextProjOwn ==
  \/ Tick
  \/ DoOwnCreate
  \/ DoOwnGet
  \/ DoOwnUpdate
  \/ DoOwnComplete
  \/ DoOwnList
  \/ DoOwnStats
  \/ DoOwnDelete

SpecProjOwn == Init /\ [][NextProjOwn]_vars

\* the caller passes authentication, holds a project role and is neither
\* admin nor madmin
PlainProjectUser(c) ==
  /\ authenticateToken(c) = 0
  /\ canAccessProjects(users[c].roles)
  /\ "admin" \notin RoleSet(users[c].roles)
  /\ "madmin" \notin RoleSet(users[c].roles)

OwnedBy(c, i) == projects[i] # NoProject /\ projects[i].created_by = c

\* the step takes the request of slot r, of the given route, on from the
\* answer of its query pc
Leaves(r, route, pc) ==
  /\ inflight[r].pc = pc
  /\ inflight[r].req.route = route
  /\ inflight'[r] # inflight[r]

\* the step in which the update handler has the project row and decides
OwnerEndDateRule ==
  \A r \in Reqs :
    (/\ Leaves(r, "proj_update", "select")
     /\ PlainProjectUser(inflight[r].req.caller)
     /\ OwnedBy(inflight[r].req.caller, inflight[r].req.id)
     /\ inflight[r].req.upd.end_date # NoNum)
    => LET upd == inflight[r].req.upd
           resulting == IF upd.status # NoStr THEN upd.status
                        ELSE projects[inflight[r].req.id].status IN
       IF resulting = "completed"
       THEN /\ inflight'[r].pc = "update"
            /\ projects' = projects
       ELSE /\ last'.op = "proj_update"
            /\ last'.code # 200
            /\ projects' = projects

\* the update it goes on to stores the end date, and the answer is 200
OwnerEndDateStored ==
  \A r \in Reqs :
    /\ (/\ Leaves(r, "proj_update", "update")
        /\ OwnedBy(inflight[r].req.caller, inflight[r].req.id)
        /\ inflight[r].req.upd.end_date # NoNum)
       => /\ projects'[inflight[r].req.id].end_date = inflight[r].req.upd.end_date
          /\ inflight'[r].pc = "creator"
    /\ Leaves(r, "proj_update", "creator")
       => (last'.op = "proj_update" /\ last'.code = 200 /\ projects' = projects)

\* C11: an update by the non-privileged owner that sets end_date is rejected
\* and changes nothing when the resulting status (the declared one, else the
\* stored one) is not completed, and succeeds when it is completed.
C11_OwnerEndDateRule == [][OwnerEndDateRule /\ OwnerEndDateStored]_vars

\* C12: in every state reached by non-privileged callers creating, updating
\* and completing, a stored project has an end date only if its status is
\* completed.
C12_EndDateOnlyWhenCompleted ==
  \A i \in ProjectIds :
    (projects[i] # NoProject /\ projects[i].end_date # NoNum)
    => projects[i].status = "completed"

\* the step in which the complete handler has the row of a completed
\* project and decides: a caller who may complete it (its creator, an
\* admin or a madmin) is refused with the already-completed error, whose
\* kind, the status code, is not the one of a field-validation failure;
\* whoever the caller is, the request is refused and the project stays
CompleteOfCompletedRejected ==
  \A r \in Reqs :
    (/\ Leaves(r, "proj_complete", "select")
     /\ inflight[r].req.id \in StoredProjectIds
     /\ projects[inflight[r].req.id].status = "completed")
    => /\ last'.op = "proj_complete"
       /\ last'.code >= 400
       /\ projects' = projects
       /\ canEdit(inflight[r].user, projects[inflight[r].req.id])
            => /\ last'.err = "already_completed"
               /\ last'.code # ValidationStatus

ValidationAnswersItsOwnError ==
  (/\ last'.op = "proj_complete"
   /\ last'.req.id = BadId
   /\ authenticateToken(last'.req.caller) = 0)
  => /\ last'.code = ValidationStatus
     /\ last'.err = "validation_failed"
     /\ projects' = projects

\* C13: completing a project that is already completed is rejected with a
\* business-state error whose kind differs from the kind of field-validation
\* failures, and the project is unchanged; so every complete after a
\* successful one is rejected while the status stays completed.
C13_AlreadyCompleted ==
  [][CompleteOfCompletedRejected /\ ValidationAnswersItsOwnError]_vars

NotOwner(c, i) == projects[i] # NoProject /\ projects[i].created_by # c

NotOwnerAnswer == last'.code = 403 /\ last'.err = "not_owner" /\ projects' = projects

ByIdRoutes == {"proj_get", "proj_update", "proj_complete"}

\* the answer to a read, update or complete of another user's project
NotOwnerForbidden ==
  (/\ last'.op \in ByIdRoutes
   /\ last'.req.id \in ProjectIds
   /\ PlainProjectUser(last'.req.caller)
   /\ NotOwner(last'.req.caller, last'.req.id))
  => NotOwnerAnswer

\* no step of such a request writes the project
NotOwnerWritesNothing ==
  \A r \in Reqs :
    (/\ inflight[r].req.route \in ByIdRoutes
     /\ inflight'[r] # inflight[r]
     /\ PlainProjectUser(inflight[r].req.caller)
     /\ NotOwner(inflight[r].req.caller, inflight[r].req.id))
    => projects' = projects

NotFoundOnlyWhenAbsent ==
  (/\ last'.op \in ByIdRoutes
   /\ last'.req.id \in ProjectIds
   /\ PlainProjectUser(last'.req.caller)
   /\ last'.code = 404)
  => projects[last'.req.id] = NoProject

\* C14: a user-role caller who is neither admin nor madmin and reads, updates
\* or completes a stored project of another user is answered 403 with the
\* not-owner error and the project is unchanged; 404 is answered only when
\* no project with the id is stored.
C14_NotOwnerForbidden ==
  [][NotOwnerForbidden /\ NotOwnerWritesNothing /\ NotFoundOnlyWhenAbsent]_vars

C14_Witness ==
  /\ last.op \in {"proj_get", "proj_update", "proj_complete"}
  /\ last.code = 403
  /\ last.err = "not_owner"
  /\ last.id \in StoredProjectIds
  /\ projects[last.id].created_by \in {"u3", "u5"}

\* the caller holds none of user, madmin, admin
NoProjectRole(c) == RoleSet(users[c].roles) \cap {"user", "madmin", "admin"} = {}

\* refused in the step the request arrives in, nothing written
Denied ==
  /\ last'.code \notin {200, 201}
  /\ inflight' = inflight
  /\ projects' = projects

NoRoleDenied ==
  (/\ last'.op \in {"proj_list", "proj_get", "proj_create", "proj_update",
                    "proj_complete", "proj_stats"}
   /\ NoProjectRole(last'.req.caller))
  => Denied

DeleteOnlyByAdmin ==
  (last'.op = "proj_delete" /\ "admin" \notin RoleSet(users[last'.req.caller].roles)) => Denied

\* C15: a caller holding none of user, madmin, admin is denied the project
\* list, read, create, update, complete and statistics and no project is
\* created or changed; a deletion by a caller without admin (madmin
\* included) is denied and removes nothing.
C15_ProjectRoleGate == [][NoRoleDenied /\ DeleteOnlyByAdmin]_vars

C15_Witness ==
  /\ last.op \in {"proj_list", "proj_get", "proj_create", "proj_update",
                  "proj_complete", "proj_stats"}
  /\ last.code = 403
  /\ last.err = "no_project_role"
  /\ StoredProjectIds # {}

(***************************************************************************)
(* List specification.  The users u3 and u5 create projects, MaxProjects   *)
(* of them in all; they, the madmin u2 and the                             *)
(* staff-only u6 list and count; the admin u1 deletes.  One request at a   *)
(* time.                                                                   *)
(***************************************************************************)
ListCreators == {"u3", "u5"}
ListReaders == {"u2", "u3", "u5", "u6"}

DoListCreate ==
  \E r \in OneAtATime, c \in ListCreators, st \in ProjectStatuses :
    /\ Free(r) => FreshProjectId \in ProjectIds
    /\ ProjCreate(r, c, 0, NoNum, st)
DoListList == \E r \in OneAtATime, c \in ListReaders, st \in ListStatuses,
                 uid \in ListUserIds :
                ProjList(r, c, st, uid)
DoListStats == \E r \in OneAtATime, c \in ListReaders : ProjStats(r, c)
DoListDelete == \E r \in OneAtATime, i \in ProjectIds : ProjDelete(r, "u1", i)

NextProjList ==
  \/ DoListCreate
  \/ DoListList
  \/ DoListStats
  \/ DoListDelete

SpecProjList == Init /\ [][NextProjList]_vars

OwnProjects(c) == {i \in ProjectIds : OwnedBy(c, i)}

ListShowsOwnOnly ==
  (/\ last'.op = "proj_list"
   /\ last'.code = 200
   /\ PlainProjectUser(last'.req.caller))
  => /\ \A row \in last'.rows :
          row.created_by = last'.req.caller /\ row.id \in OwnProjects(last'.req.caller)
     /\ last'.total <= Cardinality(OwnProjects(last'.req.caller))

StatsCountOwnOnly ==
  (/\ last'.op = "proj_stats"
   /\ last'.code = 200
   /\ PlainProjectUser(last'.req.caller))
  => \A row \in last'.rows :
       /\ row.total = Cardinality(OwnProjects(last'.req.caller))
       /\ row.pending + row.ongoing + row.completed = row.total

\* C16: for a caller who is neither admin nor madmin, every project the list
\* returns was created by the caller, whatever user_id filter is sent, and
\* the statistics count the caller's projects only.
C16_ListOwnOnly == [][ListShowsOwnOnly /\ StatsCountOwnOnly]_vars

C16_Witness ==
  /\ last.op = "proj_list"
  /\ last.code = 200
  /\ last.rows # {}
  /\ \E i \in StoredProjectIds : \A row \in last.rows : row.created_by # projects[i].created_by

(***************************************************************************)
(* User-management specification.  Callers: the admin u1, the madmin u2    *)
(* and the user u3.  u3 is the profile updated with every body, u2 the one *)
(* renamed, u4 the account approved and given a password, u7 the account   *)
(* created.  One request at a time.                                        *)
(***************************************************************************)
UsrCallers == {"u1", "u2", "u3"}
UsrTargets == {"u2", "u3"}

UsrKeySets ==
  {{}, {"name"}, {"email"}, {"username"}, {"roles"}, {"approved"}, {"other"},
   {"name", "roles"}, {"name", "approved"}, {"name", "other"}}

\* bodies with name n2, the address and username of u1, a roles array with
\* or without staff, approved false
UsrUpdates ==
  {[roles |-> <<"staff", "admin">>, approved |-> FALSE, email |-> "e1", username |-> "m1",
    name |-> "n2", keys |-> k] : k \in UsrKeySets}
  \cup {[roles |-> <<"user">>, approved |-> FALSE, email |-> "e1", username |-> "m1",
         name |-> "n2", keys |-> {"roles"}]}

NameOnly ==
  [roles |-> <<"staff", "admin">>, approved |-> FALSE, email |-> "e1", username |-> "m1",
   name |-> "n2", keys |-> {"name"}]

DoUserList == \E r \in OneAtATime, c \in UsrCallers, a \in {NoStr, "true", "false"} :
                UserList(r, c, a)
DoUserGet == \E r \in OneAtATime, c \in UsrCallers, id \in UsrTargets \cup {"u7"} :
               UserGet(r, c, id)
DoUserCreate == \E r \in OneAtATime, c \in UsrCallers, e \in {"e1", "e7"},
                   roles \in {<<"staff", "user">>, <<"staff", "staff">>, <<"user">>} :
                  UserCreate(r, c, e, "m7", "pw1", roles, NoStr)
DoUserUpdate == \E r \in OneAtATime, c \in UsrCallers, upd \in UsrUpdates :
                  UserUpdate(r, c, "u3", upd)
DoUserRename == \E r \in OneAtATime, c \in UsrCallers : UserUpdate(r, c, "u2", NameOnly)
DoUserResetPassword == \E r \in OneAtATime, c \in UsrCallers :
                         UserResetPassword(r, c, "u4", "pw1")
DoUserApprove == \E r \in OneAtATime, c \in UsrCallers, id \in {"u4", "u7"} :
                   UserApprove(r, c, id)
DoUserStats == \E r \in OneAtATime, c \in UsrCallers : UserStats(r, c)
DoRegister == \E r \in OneAtATime, e \in {"E7", "e3"} : Register(r, e, "m7", "pw1")
DoUsrChangePassword == \E r \in OneAtATime, c \in UsrCallers, cur \in {"pw1", "pw2"} :
                         ChangePassword(r, c, cur, "pw1")

NextUsers ==
  \/ DoUserList
  \/ DoUserGet
  \/ DoUserCreate
  \/ DoUserUpdate
  \/ DoUserRename
  \/ DoUserResetPassword
  \/ DoUserApprove
  \/ DoUserStats
  \/ DoRegister
  \/ DoUsrChangePassword

SpecUsers == Init /\ [][NextUsers]_vars

\* the caller passes authentication and does not hold admin
AuthenticatedNonAdmin(c) == authenticateToken(c) = 0 /\ "admin" \notin RoleSet(users[c].roles)

\* the body passes the field validators
WellFormed(upd) == "roles" \in upd.keys => ValidRoles(upd.roles)

NonAdminFieldsForbidden ==
  (/\ last'.op = "user_update"
   /\ AuthenticatedNonAdmin(last'.req.caller)
   /\ WellFormed(last'.req.upd)
   /\ last'.req.upd.keys \ {"name", "email", "username"} # {})
  => last'.code = 403 /\ users' = users

PrivilegesChanged ==
  \E u \in StoredUserIds :
    users'[u].roles # users[u].roles \/ users'[u].approved # users[u].approved

\* the routes a caller is authenticated for
CallerRoutes ==
  {"user_list", "user_get", "user_create", "user_update", "user_password",
   "user_approve", "user_stats", "change_password", "verify", "logout",
   "clock_in", "proj_stats"}

\* the step belongs to a request of a caller who holds admin
StepOfAdmin ==
  \E r \in Reqs : /\ inflight[r].req.route \in CallerRoutes
                  /\ inflight'[r] # inflight[r]
                  /\ "admin" \in RoleSet(users[inflight[r].req.caller].roles)

NonAdminKeepsPrivileges == PrivilegesChanged => StepOfAdmin

\* C18: an update by a caller without admin whose (well-formed) body names a
\* key outside name, email, username is answered 403 and the users table is
\* unchanged; no step taken without admin changes the roles or the approved
\* flag of a stored user.
C18_NonAdminAllowlist == [][NonAdminFieldsForbidden /\ NonAdminKeepsPrivileges]_vars

C18_Witness ==
  /\ last.op = "user_update"
  /\ last.code = 403
  /\ last.err = "fields_not_allowed"
  /\ users["u3"].name = "n2"

\* refused by requireAdmin in the step the request arrives in
AdminOnlyDenied ==
  /\ last'.code = 403
  /\ last'.err = "required_roles"
  /\ last'.rows = {}
  /\ inflight' = inflight
  /\ users' = users

AdminOnlyRoutes ==
  (/\ last'.op \in {"user_list", "user_create", "user_password", "user_approve",
                    "user_stats"}
   /\ AuthenticatedNonAdmin(last'.req.caller))
  => AdminOnlyDenied

OwnOrAdmin(c, id) == id = c \/ "admin" \in RoleSet(users[c].roles)

OwnOrAdminById ==
  LET c == last'.req.caller
      id == last'.req.id IN
  /\ (last'.op = "user_get" /\ authenticateToken(c) = 0)
     => /\ (last'.err = "not_own_profile") = ~OwnOrAdmin(c, id)
        /\ (OwnOrAdmin(c, id) /\ users[id] # NoUser) => last'.code = 200
        /\ ~OwnOrAdmin(c, id) => (last'.code = 403 /\ last'.rows = {})
  /\ (last'.op = "user_update" /\ authenticateToken(c) = 0 /\ WellFormed(last'.req.upd))
     => /\ (last'.err = "not_own_profile") = ~OwnOrAdmin(c, id)
        /\ ~OwnOrAdmin(c, id) => (last'.code = 403 /\ users' = users)
        /\ (OwnOrAdmin(c, id) /\ users[id] # NoUser /\ last'.req.upd.keys = {"name"})
           => (last'.code = 200 /\ users'[id].name = last'.req.upd.name)

\* C19: the user list, user creation, password reset, approval and user
\* statistics are answered 403 and change nothing unless the caller holds
\* admin (madmin does not pass); a user is read or updated by id exactly
\* when the id is the caller's own or the caller holds admin.
C19_AdminOnly == [][AdminOnlyRoutes /\ OwnOrAdminById]_vars

\* the madmin is refused the approval of the pending account
C19_Witness ==
  /\ last.op = "user_approve"
  /\ last.code = 403
  /\ last.err = "required_roles"
  /\ ~users["u4"].approved
  /\ users["u2"].approved
  /\ users["u2"].name = "n2"

(***************************************************************************)
(* Account specification: self-registration, user creation and profile     *)
(* updates with addresses, usernames and role arrays that vary.  Callers:  *)
(* the admin u1 and the user u3; u3 is the profile updated, u7 the account *)
(* registered or created (and updated afterwards).  "guest" is a role the  *)
(* validator does not know.  One request at a time.                        *)
(***************************************************************************)
AccCallers == {"u1", "u3"}
AccTargets == {"u3", "u7"}
AccEmails == {"e1", "e3", "e7", "E7"}
AccUsernames == {"m1", "m3", "m7"}
\* role arrays: staff twice, staff with admin, without staff, with an
\* unknown role, empty (registration stores staff alone)
AccRoles ==
  {<<"staff", "staff">>, <<"staff", "admin">>, <<"user">>, <<"staff", "guest">>, <<>>}

AccBody == [roles |-> <<"staff">>, approved |-> TRUE, email |-> "e7", username |-> "m7",
            name |-> "n2", keys |-> {}]

\* bodies that carry an address, a username, both, or a roles array
AccUpdates ==
  {[AccBody EXCEPT !.keys = {"email"}, !.email = e] : e \in AccEmails}
  \cup {[AccBody EXCEPT !.keys = {"username"}, !.username = m] : m \in AccUsernames}
  \cup {[AccBody EXCEPT !.keys = {"email", "username"}, !.email = e, !.username = m] :
          e \in AccEmails, m \in AccUsernames}
  \cup {[AccBody EXCEPT !.keys = {"roles"}, !.roles = roles] : roles \in AccRoles}

DoAccRegister == \E r \in OneAtATime, e \in AccEmails, m \in AccUsernames :
                   Register(r, e, m, "pw1")
DoAccCreate == \E r \in OneAtATime, c \in AccCallers, e \in AccEmails, m \in AccUsernames,
                  roles \in AccRoles :
                 UserCreate(r, c, e, m, "pw1", roles, NoStr)
DoAccUpdate == \E r \in OneAtATime, c \in AccCallers, id \in AccTargets, upd \in AccUpdates :
                 UserUpdate(r, c, id, upd)

NextAccounts ==
  \/ DoAccRegister
  \/ DoAccCreate
  \/ DoAccUpdate

SpecAccounts == Init /\ [][NextAccounts]_vars

\* the roles every stored array names are known ones, staff among them
RolesWellFormed ==
  \A u \in StoredUserIds :
    /\ RoleSet(users[u].roles) # {}
    /\ RoleSet(users[u].roles) \subseteq {"staff", "user", "madmin", "admin"}
    /\ "staff" \in RoleSet(users[u].roles)

\* the array names an unknown role or omits staff
BadRoles(roles) ==
  ~(RoleSet(roles) \subseteq {"staff", "user", "madmin", "admin"}) \/ "staff" \notin RoleSet(roles)

Rejected == last'.code >= 400 /\ users' = users

BadRolesRejected ==
  /\ (last'.op = "user_create" /\ BadRoles(last'.req.roles)) => Rejected
  /\ (/\ last'.op = "user_update"
      /\ "roles" \in last'.req.upd.keys
      /\ BadRoles(last'.req.upd.roles)) => Rejected

\* C21: the roles of every stored user are a non-empty set of known roles
\* that contains staff, after any sequence of registrations, user creations
\* and user updates; a creation or an update whose roles array names an
\* unknown role or omits staff is answered with an error and leaves the
\* users table as it was.
C21_RolesContainStaff == []RolesWellFormed /\ [][BadRolesRejected]_vars

\* the admin was refused an update that takes staff from u3, after having
\* made u3 an admin
C21_Witness ==
  /\ last.op = "user_update"
  /\ last.code = 400
  /\ last.err = "validation_failed"
  /\ users["u3"].roles = <<"staff", "admin">>
  /\ users["u7"] # NoUser

\* no two stored users share an address, no two share a username
UniqueAccounts ==
  \A u, v \in StoredUserIds :
    u # v => /\ users[u].email # users[v].email
             /\ users[u].username # users[v].username

\* a stored user other than id already has the address or the username
TakenByOther(id, email, username) ==
  \E u \in StoredUserIds \ {id} : users[u].email = email \/ users[u].username = username

DuplicateRejected ==
  /\ (/\ last'.op \in {"register", "user_create"}
      /\ TakenByOther(NoId, normalizeEmail(last'.req.email), last'.req.username))
     => Rejected
  /\ (/\ last'.op = "user_update"
      /\ users[last'.req.id] # NoUser
      /\ TakenByOther(last'.req.id,
           IF "email" \in last'.req.upd.keys
           THEN normalizeEmail(last'.req.upd.email) ELSE NoStr,
           IF "username" \in last'.req.upd.keys THEN last'.req.upd.username ELSE NoStr))
     => Rejected

\* C22: with every request run to its answer before the next, no two stored
\* users share an email and no two share a username after any sequence of
\* registrations, user creations and user updates; a request whose email or
\* username is already held by another stored user is answered with an
\* error and leaves the users table as it was.
C22_UniqueEmailUsername == []UniqueAccounts /\ [][DuplicateRejected]_vars

\* u3 has moved to the address e7, the new account u7 holds e3, and an
\* update asking for an address or username in use was refused
C22_Witness ==
  /\ last.op = "user_update"
  /\ last.code = 400
  /\ last.err = "already_exists"
  /\ users["u7"] # NoUser
  /\ users["u7"].email = "e3"
  /\ users["u3"].email = "e7"

(***************************************************************************)
(* Session specification.  u1, u3 and u4 log in; a request presents a      *)
(* token login has issued.  The admin approves and suspends u3 and u4.     *)
(* The logins and the requests that present a token run one at a time in   *)
(* slot r1; the updates and approvals run in slot r2 and interleave with   *)
(* them at every query.  One clock-in is accepted; the later ones are      *)
(* those of callers who are refused.                                       *)
(***************************************************************************)
LoginNames == {"e1", "e3", "m4", "m9"}
Passwords == {"pw1", "pw2"}
SessTargets == {"u3", "u4"}

\* bodies that set the approved flag
SessUpdates ==
  {[roles |-> <<"staff">>, approved |-> a, email |-> "e1", username |-> "m1",
    name |-> "n2", keys |-> {"approved"}] : a \in BOOLEAN}

\* the slot of the requests that change the approved flag
OtherSlot == Reqs \ OneAtATime

\* a request presents a token when it arrives
Presents(r, c) == Free(r) => c \in tokens

DoLogin == \E r \in OneAtATime, n \in LoginNames, pw \in Passwords : Login(r, n, pw)
DoSessVerify == \E r \in OneAtATime, c \in tokens : Verify(r, c)
DoSessLogout == \E r \in OneAtATime, c \in tokens : Logout(r, c)
DoSessChangePassword == \E r \in OneAtATime, c \in SessTargets, cur \in Passwords :
                          Presents(r, c) /\ ChangePassword(r, c, cur, "pw2")
DoSessUpdate == \E r \in OtherSlot, c \in UserIds, id \in SessTargets, upd \in SessUpdates :
                  Presents(r, c) /\ UserUpdate(r, c, id, upd)
DoSessApprove == \E r \in OtherSlot, c \in UserIds, id \in SessTargets :
                   Presents(r, c) /\ UserApprove(r, c, id)
DoSessClockIn ==
  \E r \in OneAtATime, c \in UserIds :
    /\ Free(r) => \/ issued.entries = 0
                  \/ OpenEntries(timeEntries, c) # {}
                  \/ authenticateToken(c) # 0
    /\ Presents(r, c) /\ ClockIn(r, c)
DoSessProjStats == \E r \in OneAtATime, c \in UserIds : Presents(r, c) /\ ProjStats(r, c)

NextSession ==
  \/ DoLogin
  \/ DoSessVerify
  \/ DoSessLogout
  \/ DoSessChangePassword
  \/ DoSessUpdate
  \/ DoSessApprove
  \/ DoSessClockIn
  \/ DoSessProjStats

SpecSession == Init /\ [][NextSession]_vars

\* the request answered by the step was answered in the step it arrived in
AnsweredOnArrival == last'.op # "none" /\ inflight' = inflight

\* login goes on to the password comparison and to the token only for a
\* user whose approved flag is true in the row of its users query, and a
\* token is issued only by that login
TokenOnlyForApproved ==
  /\ \A r \in Reqs :
       (Free(r) /\ inflight'[r].pc = "compare")
       => /\ users[inflight'[r].loc.token] # NoUser
          /\ users[inflight'[r].loc.token].approved
  /\ \A u \in tokens' \ tokens :
       /\ last'.op = "login"
       /\ last'.token = u
       /\ \E r \in Reqs : inflight[r].pc = "touch" /\ inflight[r].loc.token = u
  /\ last'.token # NoId => last'.op = "login"

UnapprovedLoginRejected ==
  (/\ last'.op = "login"
   /\ AnsweredOnArrival
   /\ LoginMatches(last'.req.emailOrUsername) # {}
   /\ \A u \in LoginMatches(last'.req.emailOrUsername) : ~users[u].approved)
  => /\ last'.code = 403
     /\ last'.token = NoId
     /\ tokens' = tokens

\* the authenticated routes of the specification
SessRoutes ==
  {"verify", "logout", "clock_in", "proj_stats", "change_password", "user_approve",
   "user_update"}

\* a request of a caller whose approved flag is false when its users query
\* runs is answered 403 in that step
SuspendedRefused ==
  /\ (/\ last'.op \in SessRoutes
      /\ AnsweredOnArrival
      /\ ~users[last'.req.caller].approved)
     => /\ last'.code = 403
        /\ last'.err = "suspended"
        /\ last'.rows = {}
        /\ UNCHANGED <<users, projects, invoices, timeEntries, tokens>>
  /\ \A r \in Reqs :
       (/\ Free(r)
        /\ inflight'[r].pc # "idle"
        /\ inflight'[r].req.route \in SessRoutes)
       => /\ users[inflight'[r].req.caller].approved
          /\ inflight'[r].user = UserRow(inflight'[r].req.caller)

\* a step after the users query acts for the user that query answered with
ActsForAuthenticated ==
  \A r \in Reqs :
    (/\ inflight[r].req.route \in SessRoutes
     /\ inflight'[r] # inflight[r])
    => /\ inflight[r].user.id = inflight[r].req.caller
       /\ inflight[r].user.approved

\* C20: login of a user whose approved flag is false is answered 403 and
\* signs no token; a request presenting a token of a user whose approved
\* flag is false when the request is authenticated is answered 403 and
\* nothing is read or written for it, also when the token was signed while
\* the flag was true.
C20_ApprovalGatesAuthentication ==
  [][/\ TokenOnlyForApproved
     /\ UnapprovedLoginRejected
     /\ SuspendedRefused
     /\ ActsForAuthenticated]_vars

\* u3 logged in while approved, was suspended by the admin, and its
\* clock-in is refused
C20_Witness ==
  /\ "u3" \in tokens
  /\ ~users["u3"].approved
  /\ last.op = "clock_in"
  /\ last.code = 403
  /\ last.err = "suspended"

(***************************************************************************)
(* Time-entry specifications.  Callers: u1, u3 and the unapproved u4.      *)
(* SpecTime runs one request at a time; in SpecTimeConc clock-in and       *)
(* clock-out requests interleave at their queries.                         *)
(***************************************************************************)
TimeCallers == {"u1", "u3", "u4"}

DoClockIn ==
  \E r \in OneAtATime, c \in TimeCallers :
    /\ Free(r) => FreshEntryId \in EntryIds \/ OpenEntries(timeEntries, c) # {}
    /\ ClockIn(r, c)
DoClockOut == \E r \in OneAtATime, c \in TimeCallers : ClockOut(r, c)
DoTimeDelete == \E r \in OneAtATime, c \in TimeCallers, i \in EntryIds : TimeDelete(r, c, i)

NextTime ==
  \/ Tick
  \/ DoClockIn
  \/ DoClockOut
  \/ DoTimeDelete

SpecTime == Init /\ [][NextTime]_vars

\* a clock-in arrives while the table has room for its entry
DoConcClockIn ==
  \E r \in Reqs, c \in TimeCallers :
    /\ Free(r) => issued.entries + Cardinality({q \in Reqs : ~Free(q)}) < MaxEntries
    /\ ClockIn(r, c)
DoConcClockOut == \E r \in Reqs, c \in TimeCallers : ClockOut(r, c)

NextTimeConc ==
  \/ Tick
  \/ DoConcClockIn
  \/ DoConcClockOut

SpecTimeConc == Init /\ [][NextTimeConc]_vars

\* the number of stored entries of user u whose clock_out is NULL
OpenCount(u) ==
  Cardinality({k \in 1..Len(timeEntries) :
                 timeEntries[k].user_id = u /\ timeEntries[k].clock_out = NoNum})

AtMostOneOpen == \A u \in UserIds : OpenCount(u) <= 1

ClockInRejectedWhileOpen ==
  (last'.op = "clock_in" /\ OpenCount(last'.req.caller) > 0)
  => (timeEntries' = timeEntries /\ last'.code >= 400)

ClockOutRejectedWhenNoneOpen ==
  (last'.op = "clock_out" /\ OpenCount(last'.req.caller) = 0)
  => (timeEntries' = timeEntries /\ last'.code >= 400)

\* C3: with every request run to its answer before the next, each user has
\* at most one time entry with a null clock-out in every reachable state; a
\* clock-in of a caller who has an open entry is refused and creates no
\* entry, and a clock-out of a caller who has none is refused and changes
\* no entry.
C3_OneOpenEntry ==
  /\ []AtMostOneOpen
  /\ [][ClockInRejectedWhileOpen]_vars
  /\ [][ClockOutRejectedWhenNoneOpen]_vars

\* A clock-in was refused because the caller is clocked in, next to a
\* closed entry of the same caller.
C3_Witness ==
  /\ last.op = "clock_in"
  /\ last.err = "already_clocked_in"
  /\ \E u \in UserIds :
       /\ OpenCount(u) = 1
       /\ \E k \in 1..Len(timeEntries) :
            timeEntries[k].user_id = u /\ timeEntries[k].clock_out # NoNum

\* C4: at most one open entry per user also when two clock-in requests of
\* the same user interleave between the open-entry check and the insert.
C4_OneOpenEntryConcurrent ==
  \A u \in UserIds : ~(OpenCount(u) >= 2)

(***************************************************************************)
(* Scope specification: the admin u1 and the user u3 clock in and out,     *)
(* delete entries by id and read the list, the current entry, the summary  *)
(* of the day and the statistics.  One request at a time.                  *)
(***************************************************************************)
ScopeCallers == {"u1", "u3"}
ScopeDates == {NoNum, 0}
\* limit and offset: the default page and the second page of one row
ScopePages == {<<10, 0>>, <<1, 1>>}
ScopePeriods == {"week", "month"}

DoScopeClockIn ==
  \E r \in OneAtATime, c \in ScopeCallers :
    /\ Free(r) => FreshEntryId \in EntryIds \/ OpenEntries(timeEntries, c) # {}
    /\ ClockIn(r, c)
DoScopeClockOut == \E r \in OneAtATime, c \in ScopeCallers : ClockOut(r, c)
DoScopeDelete == \E r \in OneAtATime, c \in ScopeCallers, id \in EntryIds :
                   TimeDelete(r, c, id)
DoScopeList == \E r \in OneAtATime, c \in ScopeCallers, d \in ScopeDates, pg \in ScopePages :
                 TimeList(r, c, d, pg[1], pg[2])
DoScopeCurrent == \E r \in OneAtATime, c \in ScopeCallers : TimeCurrent(r, c)
DoScopeToday == \E r \in OneAtATime, c \in ScopeCallers : TimeToday(r, c)
DoScopeStats == \E r \in OneAtATime, c \in ScopeCallers, p \in ScopePeriods :
                  TimeStats(r, c, p)

NextTimeScope ==
  \/ Tick
  \/ DoScopeClockIn
  \/ DoScopeClockOut
  \/ DoScopeDelete
  \/ DoScopeList
  \/ DoScopeCurrent
  \/ DoScopeToday
  \/ DoScopeStats

SpecTimeScope == Init /\ [][NextTimeScope]_vars

\* the entries of the users other than c, in their stored order
EntriesOfOthers(tbl, c) == SelectSeq(tbl, LAMBDA e : e.user_id # c)

TimeRoutes ==
  {"clock_in", "clock_out", "time_delete", "time_list", "time_current", "time_today",
   "time_stats"}

\* a step that changes the table is a step of a time-entry request, and the
\* entries of the users other than its caller stay as they were
OthersEntriesUnchanged ==
  \/ timeEntries' = timeEntries
  \/ \E r \in Reqs :
       /\ inflight[r].req.route \in TimeRoutes
       /\ inflight'[r] # inflight[r]
       /\ EntriesOfOthers(timeEntries', inflight[r].req.caller)
            = EntriesOfOthers(timeEntries, inflight[r].req.caller)

\* how many entries of c satisfy the date test
OwnCount(c, d) ==
  Cardinality({k \in 1..Len(timeEntries) :
                 timeEntries[k].user_id = c /\ (d = NoNum \/ timeEntries[k].date = d)})

ReadsOwnEntriesOnly ==
  (last'.op \in TimeRoutes /\ last'.code = 200)
  => /\ last'.op = "time_list"
        => /\ \A row \in last'.rows : row.user_id = last'.req.caller
           /\ last'.total = OwnCount(last'.req.caller, last'.req.date)
     /\ last'.op = "time_current"
        => \A row \in last'.rows :
             row.user_id = last'.req.caller /\ row.clock_out = NoNum
     /\ last'.op = "time_today"
        => \A r \in Reqs :
             inflight[r].pc = "select"
             => \A row \in last'.rows :
                  row.entriesCount = OwnCount(last'.req.caller, inflight[r].loc.today)
     /\ last'.op = "time_stats"
        => \A row \in last'.rows : row.total_entries = OwnCount(last'.req.caller, NoNum)

DeleteOfOthersNotFound ==
  (/\ last'.op = "time_delete"
   /\ authenticateToken(last'.req.caller) = 0
   /\ \E k \in 1..Len(timeEntries) :
        /\ timeEntries[k].id = last'.req.id
        /\ timeEntries[k].user_id # last'.req.caller)
  => last'.code = 404 /\ timeEntries' = timeEntries

\* C25: a time-entry request (list, current, today, statistics, clock-in,
\* clock-out, delete) of caller A, admin or not, leaves the entries of every
\* other user as they were and answers with entries and counts of A's
\* entries only; deleting another user's entry by id is answered 404.
C25_OwnEntriesOnly ==
  [][OthersEntriesUnchanged /\ ReadsOwnEntriesOnly /\ DeleteOfOthersNotFound]_vars

\* a delete (by the admin) of the closed entry of u3 was answered not found
C25_Witness ==
  /\ last.op = "time_delete"
  /\ last.code = 404
  /\ \E k \in 1..Len(timeEntries) :
       /\ timeEntries[k].id = last.id
       /\ timeEntries[k].user_id = "u3"
       /\ timeEntries[k].clock_out # NoNum
  /\ \E k \in 1..Len(timeEntries) : timeEntries[k].user_id = "u1"

\* the entry with this id is stored in tbl, open or closed as asked
StoredEntry(tbl, id, open) ==
  \E k \in 1..Len(tbl) : tbl[k].id = id /\ (tbl[k].clock_out = NoNum) = open

OpenDeleteRejected ==
  (last'.op = "time_delete" /\ StoredEntry(timeEntries, last'.req.id, TRUE))
  => /\ last'.code >= 400
     /\ timeEntries' = timeEntries

OpenLeavesByClockOutOnly ==
  \A k \in 1..Len(timeEntries) :
    timeEntries[k].clock_out = NoNum
    => \/ StoredEntry(timeEntries', timeEntries[k].id, TRUE)
       \/ /\ StoredEntry(timeEntries', timeEntries[k].id, FALSE)
          /\ last'.op = "clock_out"
          /\ last'.req.caller = timeEntries[k].user_id

OnlyClosedRemoved ==
  \A k \in 1..Len(timeEntries) :
    (\A j \in 1..Len(timeEntries') : timeEntries'[j].id # timeEntries[k].id)
    => timeEntries[k].clock_out # NoNum

\* C26: a delete of an entry whose clock_out is null is answered with an
\* error and the entry stays stored; an open entry stops being open only by
\* a clock-out of its owner, which keeps it stored, and every entry a step
\* removes has a clock_out.
C26_OpenEntryNotDeleted ==
  [][OpenDeleteRejected /\ OpenLeavesByClockOutOnly /\ OnlyClosedRemoved]_vars

\* the owner's delete of their open entry was refused
C26_Witness ==
  /\ last.op = "time_delete"
  /\ last.code = 400
  /\ last.err = "active_entry"
  /\ StoredEntry(timeEntries, last.id, TRUE)
====
